---- MODULE Spec2Model ----
(***************************************************************************)
(* A model of gnvim's grid rendering engine: the Context aggregate        *)
(* (src/ui/grid/context.rs), the Grid handlers that drive it              *)
(* (src/ui/grid/grid.rs), the renderer (src/ui/grid/render.rs) and the    *)
(* event loop boundary (src/ui/ui.rs).                                     *)
(*                                                                         *)
(* Numbers.  Every f64 length of the program that the model needs is a    *)
(* multiple of 1 / PangoScale pixels (a power of two), so the model keeps *)
(* an f64 length as its integer number of pango units and the f64         *)
(* arithmetic is exact.  An i32 is a whole number of pixels.              *)
(*                                                                         *)
(* Surfaces.  A cairo surface is its lines of pixels, px[y + 1][x + 1]    *)
(* being the pixel (x, y): a value <<kind, hl_id, text, dx, dy>>, the     *)
(* default background or the pixel at offset (dx, dy) of a text run       *)
(* painted with a highlight.                                               *)
(***************************************************************************)
EXTENDS Integers, Sequences, FiniteSets, TLC

VARIABLES
    rows,             \* Context.rows: the row store, a sequence of rows
    cell_metrics,     \* Context.cell_metrics
    surfaces,         \* Context.surfaces
    cursor,           \* Context.cursor
    cursor_context,   \* Context.cursor_context: the cursor's own surface
    queue_draw_area,  \* Context.queue_draw_area: pending dirty rectangles
    busy,             \* Context.busy
    active,           \* Context.active
    scroll_speed,     \* Context.scroll_speed: scroll animation duration
    frame_time,       \* the frame clock's current frame time
    running,          \* the event loop (the session) is alive
    op,               \* the handler that ran last: name, arguments, result
    painted,          \* the segments the last handler painted, in paint order
    invalidated,      \* the host invalidations the last handler made, in order
    screen,           \* what the last paint callback composited
    scrolled,         \* the scrolls since the last other event (at most two)
    da,               \* the drawing area's allocation, in pixels
    scroll_delta,     \* Grid.scroll_delta: the accumulated smooth deltas
    source_id,        \* UI::init's source_id: the resize timeout it tracks
    timeouts,         \* the main loop's pending timeouts
    next_source,      \* the id the main loop gives the next timeout
    now,              \* the main loop's clock
    nvim              \* the ui_try_resize requests sent to nvim, in order

\* The state of the widgets and the main loop around the grid's context.
host == <<da, scroll_delta, source_id, timeouts, next_source, now, nvim>>

vars == <<rows, cell_metrics, surfaces, cursor, cursor_context,
          queue_draw_area, busy, active, scroll_speed, frame_time, running,
          op, painted, invalidated, screen, scrolled, da, scroll_delta,
          source_id, timeouts, next_source, now, nvim>>

---------------------------------------------------------------------------
(* Bounds of the model. *)

MaxRows == 2
MaxCols == 3
MaxQueue == 2
MaxTime == 2
InitRows == 1
InitCols == 2
ScrollRows == 3

\* The number of timeouts the main loop hands out, and the last time of
\* its clock.
MaxSources == 3

MaxNow == 4

\* The largest accumulated smooth-scroll delta, in units of 1 / DeltaDen.
MaxDelta == 4

---------------------------------------------------------------------------
(* Arithmetic helpers.                                                     *)

PangoScale == 1024

FloorDiv(a, b) == a \div b

CeilDiv(a, b) == -((-a) \div b)

\* f64::floor and f64::ceil of a length in pango units, again in pango units.
Floor(v) == FloorDiv(v, PangoScale) * PangoScale

Ceil(v) == CeilDiv(v, PangoScale) * PangoScale

\* `as i32` of a whole f64, in pixels; f64::from of an i32, in pango units.
ToI32(v) == FloorDiv(v, PangoScale)

FromI32(n) == n * PangoScale

Min(a, b) == IF a <= b THEN a ELSE b

Max(a, b) == IF a >= b THEN a ELSE b

None == <<>>

Some(v) == <<v>>

IsSome(o) == o # <<>>

Unwrap(o) == o[1]

UnwrapOr(o, d) == IF o = <<>> THEN d ELSE o[1]

RECURSIVE ReverseSeq(_)
ReverseSeq(s) ==
    IF s = <<>> THEN <<>> ELSE ReverseSeq(Tail(s)) \o <<Head(s)>>

---------------------------------------------------------------------------
(* Row / Cell store (ui/grid/row.rs).                                      *)

Cell(text, hl_id, double_width) ==
    [text |-> text, hl_id |-> hl_id, double_width |-> double_width]

DefaultCell == Cell(" ", 0, FALSE)

RowNew(len) == [i \in 1..len |-> DefaultCell]

RowLen(row) == Len(row)

\* Row::resize: truncate, or pad with default cells.
RowResize(row, cols) ==
    [i \in 1..cols |-> IF i <= Len(row) THEN row[i] ELSE DefaultCell]

\* Row::cell_at: the cell at a 0-based column, if the row has one.
CellAt(row, col) ==
    IF col >= 0 /\ col < Len(row) THEN Some(row[col + 1]) ELSE None

\* Vec::get on the row store with a 0-based index.
RowGet(rs, i) ==
    IF i >= 0 /\ i < Len(rs) THEN Some(rs[i + 1]) ELSE None

\* The cells a line update writes, repeat counts expanded, left to right.
RECURSIVE ExpandCells(_)
ExpandCells(cells) ==
    IF cells = <<>> THEN <<>>
    ELSE LET c == Head(cells)
         IN  [i \in 1..c.repeat |-> Cell(c.text, c.hl_id, c.double_width)]
             \o ExpandCells(Tail(cells))

\* A row update that writes each cell of the line once, whatever its
\* repeat count.
RowWriteOnce(row, line) ==
    [i \in 1..Len(row) |->
        IF i > line.col_start /\ i <= line.col_start + Len(line.cells)
        THEN Cell(line.cells[i - line.col_start].text,
                  line.cells[i - line.col_start].hl_id,
                  line.cells[i - line.col_start].double_width)
        ELSE row[i]]

\* Row::update, the store part: write the expanded cells from col_start on.
RowWrite(row, line) ==
    LET new == ExpandCells(line.cells)
    IN  [i \in 1..Len(row) |->
            IF i > line.col_start /\ i <= line.col_start + Len(new)
            THEN new[i - line.col_start] ELSE row[i]]

\* Row::copy_range: the cells of the 0-based columns [lo, hi).
RowCopyRange(row, lo, hi) == SubSeq(row, lo + 1, hi)

\* Row::insert_at: put the cells over those from column `at` on; the row
\* keeps its length.
RowInsertAt(row, at, cells) ==
    [i \in 1..Len(row) |->
        IF i > at /\ i <= at + Len(cells) THEN cells[i - at] ELSE row[i]]

\* Row::clear_range: default cells in the columns [lo, hi).
RowClearRange(row, lo, hi) ==
    [i \in 1..Len(row) |-> IF i > lo /\ i <= hi THEN DefaultCell ELSE row[i]]

\* Row::clear: default cells in every column.
RowClear(row) == [i \in 1..Len(row) |-> DefaultCell]

\* GridScrollRegion::calc_area: the source, destination and clear row
\* ranges of a scroll of region rows [top, bot) by `count` rows (content
\* moves up for count > 0, down for count < 0).
CalcArea(reg, count) ==
    IF count > 0
    THEN [src_top |-> reg.top + count, src_bot |-> reg.bot,
          dst_top |-> reg.top, dst_bot |-> reg.bot - count,
          clr_top |-> reg.bot - count, clr_bot |-> reg.bot]
    ELSE [src_top |-> reg.top, src_bot |-> reg.bot + count,
          dst_top |-> reg.top - count, dst_bot |-> reg.bot,
          clr_top |-> reg.top, clr_bot |-> reg.top - count]

\* Row::as_segments over the 0-based column range [lo, hi): maximal runs of
\* cells that share a highlight id, in column order.
RECURSIVE SegmentsFrom(_, _, _)
SegmentsFrom(row, lo, hi) ==
    IF lo >= hi THEN <<>>
    ELSE LET rest == SegmentsFrom(row, lo + 1, hi)
             c == row[lo + 1]
         IN  IF rest # <<>> /\ rest[1].hl_id = c.hl_id
             THEN <<[start |-> lo, len |-> rest[1].len + 1, hl_id |-> c.hl_id,
                     text |-> c.text \o rest[1].text]>> \o Tail(rest)
             ELSE <<[start |-> lo, len |-> 1, hl_id |-> c.hl_id,
                     text |-> c.text]>> \o rest

\* A run-length encoding that never merges: one segment for each cell.
AsSegmentsPerCell(row, lo, hi) ==
    [i \in 1..(Min(hi, Len(row)) - lo) |->
        [start |-> lo + i - 1, len |-> 1, hl_id |-> row[lo + i].hl_id,
         text |-> row[lo + i].text]]

AsSegments(row, lo, hi) == SegmentsFrom(row, lo, Min(hi, Len(row)))

\* Row::update, the result: the segments of the written column range.
AffectedSegments(row, line) ==
    AsSegments(RowWrite(row, line), line.col_start,
               line.col_start + Len(ExpandCells(line.cells)))

---------------------------------------------------------------------------
(* Cell metrics (ui/grid/context.rs).  All fields but line_space and font  *)
(* are f64 lengths in pango units.                                         *)

Fonts == {"F1", "F2", "F3"}

LineSpaces == {0, 1}

\* What the measurement backend (pango) reports for a font, in pango units.
FontMetrics(font) ==
    IF font = "F1"
    THEN [ascent |-> 1024, descent |-> 512, approximate_char_width |-> 1536,
          underline_position |-> -256, underline_thickness |-> 128]
    ELSE IF font = "F2"
    THEN [ascent |-> 1536, descent |-> 1024, approximate_char_width |-> 1792,
          underline_position |-> -512, underline_thickness |-> 256]
    ELSE [ascent |-> 1280, descent |-> 256, approximate_char_width |-> 2048,
          underline_position |-> -128, underline_thickness |-> 64]

\* pango::Context::metrics: the font's metrics, or None when the backend has
\* none (available = FALSE).
BackendMetrics(font, available) ==
    IF available THEN Some(FontMetrics(font)) ELSE None

\* CellMetrics::update.
CellMetricsUpdate(cm, fmOpt) ==
    IF ~IsSome(fmOpt)
    THEN [result |-> "GetPangoMetrics", cm |-> cm]
    ELSE LET fm == Unwrap(fmOpt)
             extra == cm.line_space * (PangoScale \div 2)
             ascent == Ceil(fm.ascent + extra)
             decent == Ceil(fm.descent + extra)
         IN  [result |-> "Ok",
              cm |-> [cm EXCEPT
                        !.ascent = ascent,
                        !.decent = decent,
                        !.height = ascent + decent,
                        !.width = fm.approximate_char_width,
                        !.underline_position = fm.underline_position - extra,
                        !.underline_thickness = fm.underline_thickness * 2]]

\* CellMetrics::default() with the font and line space set.
CellMetricsDefault(font, line_space) ==
    [height |-> 0, width |-> 0, ascent |-> 0, decent |-> 0,
     underline_thickness |-> 0, underline_position |-> 0,
     line_space |-> line_space, font |-> font]

---------------------------------------------------------------------------
(* Surfaces (ui/grid/mod.rs) and painting (ui/grid/render.rs).             *)

Bg == <<"bg", 0, "", 0, 0>>

Transparent == <<"none", 0, "", 0, 0>>

\* A surface of w by h pixels filled with the default background.
SurfaceNew(w, h) ==
    [w |-> w, h |-> h, px |-> [y \in 1..h |-> [x \in 1..w |-> Bg]]]

\* The pixel (x, y) of a surface, or Transparent outside it.
PixelAt(surface, x, y) ==
    IF x >= 0 /\ x < surface.w /\ y >= 0 /\ y < surface.h
    THEN surface.px[y + 1][x + 1] ELSE Transparent

\* Surfaces::new: front, back and prev of cols * cell_width by
\* rows * cell_height pixels, painted with the default background;
\* `available` is whether the backend can allocate them.
SurfacesNew(cm, nrows, ncols, available) ==
    IF ~available THEN None
    ELSE LET w == ToI32(Ceil(ncols * cm.width))
             h == ToI32(Ceil(nrows * cm.height))
         IN  Some([front |-> SurfaceNew(w, h),
                   back |-> SurfaceNew(w, h),
                   prev |-> SurfaceNew(w, h),
                   offset_y |-> 0,
                   offset_y_anim |-> None])

\* The offset a scroll animation over delta_y ends at.
ScrollTarget(delta_y) == delta_y

\* Surfaces::set_animation: animate the vertical offset from 0 toward
\* delta_y over `duration`; a duration of 0 or less applies it at once.
SurfacesSetAnimation(surf, delta_y, duration, ft) ==
    IF duration <= 0
    THEN [surf EXCEPT !.offset_y = ScrollTarget(delta_y),
                      !.offset_y_anim = None]
    ELSE [surf EXCEPT !.offset_y = 0,
                      !.offset_y_anim =
                          Some([start |-> 0, end |-> ScrollTarget(delta_y),
                                start_time |-> ft,
                                end_time |-> ft + duration])]

\* Whether pixel (x, y) lies in the rectangle pos (lengths in pango units);
\* a pixel that the rectangle covers in part is painted too.
InRect(x, y, pos) ==
    /\ (x + 1) * PangoScale > pos.x
    /\ x * PangoScale < pos.x + pos.width
    /\ (y + 1) * PangoScale > pos.y
    /\ y * PangoScale < pos.y + pos.height

\* render_text: fill the rectangle with the highlight's background and draw
\* the shaped text and its underline over it.  The pixel at (dx, dy) of the
\* rectangle then shows that point of the run `text` in highlight `hl_id`.
RenderText(surface, hl_id, text, pos) ==
    [surface EXCEPT !.px =
        [y \in 1..surface.h |-> [x \in 1..surface.w |->
            IF InRect(x - 1, y - 1, pos)
            THEN <<"text", hl_id, text, x - 1 - ToI32(Floor(pos.x)),
                   y - 1 - ToI32(Floor(pos.y))>>
            ELSE surface.px[y][x]]]]

\* get_coords: x = col * w, y = row * h.
GetCoords(h, w, row, col) == <<col * w, row * h>>

\* A segment rectangle whose width is rounded down.
SegmentRectFloor(cm, seg, row) ==
    [x |-> Floor(seg.start * cm.width),
     y |-> Floor(row * cm.height),
     width |-> Floor(seg.len * cm.width),
     height |-> Ceil(cm.height)]

\* The rectangle put_segments computes for one segment of a row.
SegmentRect(cm, seg, row) ==
    [x |-> Floor(seg.start * cm.width),
     y |-> Floor(row * cm.height),
     width |-> Ceil(seg.len * cm.width),
     height |-> Ceil(cm.height)]

\* put_segments: paint each segment on the front surface and queue its
\* rectangle, in the order of `segments`.
RECURSIVE PutSegments(_, _, _, _, _)
PutSegments(front, queue, cm, segments, row) ==
    IF segments = <<>> THEN [front |-> front, queue |-> queue]
    ELSE LET seg == Head(segments)
             pos == SegmentRect(cm, seg, row)
         IN  PutSegments(RenderText(front, seg.hl_id, seg.text, pos),
                         Append(queue, pos), cm, Tail(segments), row)

\* The segments put_segments paints, in paint order, each with its row.
PaintLog(segments, row) ==
    [i \in 1..Len(segments) |->
        [row |-> row, start |-> segments[i].start, len |-> segments[i].len]]

---------------------------------------------------------------------------
(* Cursor (ui/grid/cursor.rs).  A position is <<row, col>> in units of     *)
(* 1 / PosDen cells, so that the interpolated positions are whole.         *)

\* The fixed duration of the cursor's move animation, in frame-time units.
CursorDuration == 2

PosDen == CursorDuration

\* The blink phase is kept in units of 1 / AlphaDen.
AlphaDen == 2

CursorDefault(disable_animation) ==
    [pos |-> None, animation |-> None,
     disable_animation |-> disable_animation,
     alpha |-> 0, blink_on |-> 0, cell_percentage |-> 0, color |-> -1,
     last_tick |-> 0]

\* Cursor::goto: jump when animation is disabled (or there is no position
\* yet), otherwise start interpolating from the displayed position.
CursorGoto(c, row, col, ft) ==
    LET target == <<row * PosDen, col * PosDen>>
    IN  IF c.disable_animation \/ ~IsSome(c.pos)
        THEN [c EXCEPT !.pos = Some(target), !.animation = None]
        ELSE [c EXCEPT !.animation =
                Some([start |-> Unwrap(c.pos), end |-> target,
                      start_time |-> ft, end_time |-> ft + CursorDuration])]

\* Linear interpolation from a to b at elapsed / total.
Lerp(a, b, elapsed, total) == a + ((b - a) * elapsed) \div total

\* Cursor::tick, the position part.
CursorAnimate(c, ft) ==
    IF ~IsSome(c.animation) THEN c
    ELSE LET a == Unwrap(c.animation)
         IN  IF ft >= a.end_time
             THEN [c EXCEPT !.pos = Some(a.end), !.animation = None]
             ELSE [c EXCEPT !.pos = Some(
                     <<Lerp(a.start[1], a.end[1], ft - a.start_time,
                            a.end_time - a.start_time),
                       Lerp(a.start[2], a.end[2], ft - a.start_time,
                            a.end_time - a.start_time)>>)]

\* How far the blink phase advances per unit of frame time, in units of
\* 1 / AlphaDen: the shorter blink_on, the faster the blink.
BlinkStep(blink_on) == IF blink_on = 1 THEN 3 ELSE 1

\* A blink that advances by one step on every call, whatever the frame
\* time.
CursorBlinkPerCall(c, ft) ==
    IF c.blink_on = 0 THEN c
    ELSE [c EXCEPT !.alpha =
            IF c.alpha + BlinkStep(c.blink_on) > 2 * AlphaDen THEN 0
            ELSE c.alpha + BlinkStep(c.blink_on)]

\* Cursor::tick, the blink part: a phase in [0, 2] that advances with the
\* frame time that has passed since the last tick and wraps around.
CursorBlink(c, ft) ==
    LET step == BlinkStep(c.blink_on) * (ft - c.last_tick)
    IN  IF c.blink_on = 0 THEN c
        ELSE [c EXCEPT !.alpha =
                IF c.alpha + step > 2 * AlphaDen THEN 0
                ELSE c.alpha + step]

\* Cursor::tick.
CursorTick(c, ft) ==
    [CursorAnimate(CursorBlink(c, ft), ft) EXCEPT !.last_tick = ft]

\* Cursor::get_position: the logical position (the cell the cursor is on or
\* is moving to), not the position on the screen.
GetPosition(c) ==
    IF IsSome(c.animation) THEN Some(Unwrap(c.animation).end) ELSE c.pos

\* Cursor::new_cairo_context: a fresh surface for the cursor, two cells wide.
CursorContextNew(cm, available) ==
    IF ~available THEN None
    ELSE Some([w |-> ToI32(Ceil(cm.width * 2)), h |-> ToI32(Ceil(cm.height)),
               kind |-> "blank", text |-> "", hl_id |-> 0,
               double_width |-> FALSE, color |-> -1, alpha |-> 0])

---------------------------------------------------------------------------
(* Context (ui/grid/context.rs).                                           *)

\* Context::cell_at_cursor.
CellAtCursor(rs, c) ==
    LET p == GetPosition(c)
    IN  IF ~IsSome(p) THEN None
        ELSE LET row == RowGet(rs, CeilDiv(Unwrap(p)[1], PosDen))
             IN  IF ~IsSome(row) THEN None
                 ELSE CellAt(Unwrap(row), CeilDiv(Unwrap(p)[2], PosDen))

\* A cursor rectangle that never doubles its width.
GetCursorRectSingle(rs, cm, c) ==
    LET pos == UnwrapOr(c.pos, <<0, 0>>)
        xy == GetCoords(cm.height, cm.width, pos[1], pos[2])
    IN  [x |-> FloorDiv(xy[1], PosDen * PangoScale),
         y |-> FloorDiv(xy[2], PosDen * PangoScale),
         width |-> ToI32(Ceil(cm.width)),
         height |-> ToI32(Ceil(cm.height))]

\* Context::get_cursor_rect: (x, y, width, height) in whole pixels, at the
\* position on the screen.
GetCursorRect(rs, cm, c) ==
    LET cell == CellAtCursor(rs, c)
        double_width == IF IsSome(cell) THEN Unwrap(cell).double_width
                        ELSE FALSE
        pos == UnwrapOr(c.pos, <<0, 0>>)
        xy == GetCoords(cm.height, cm.width, pos[1], pos[2])
    IN  [x |-> FloorDiv(xy[1], PosDen * PangoScale),
         y |-> FloorDiv(xy[2], PosDen * PangoScale),
         width |-> IF double_width THEN ToI32(Ceil(cm.width * 2))
                   ELSE ToI32(Ceil(cm.width)),
         height |-> ToI32(Ceil(cm.height))]

\* The f64 tuple pushed on queue_draw_area for an i32 rectangle.
RectFromI32(r) ==
    [x |-> FromI32(r.x), y |-> FromI32(r.y),
     width |-> FromI32(r.width), height |-> FromI32(r.height)]

\* Context::cursor_goto: queue the cursor rectangle before and after the
\* cursor is told to go to (row, col).
ContextCursorGoto(rs, cm, c, queue, row, col, ft) ==
    LET before == GetCursorRect(rs, cm, c)
        c2 == CursorGoto(c, row, col, ft)
        after == GetCursorRect(rs, cm, c2)
    IN  [cursor |-> c2,
         queue |-> queue \o <<RectFromI32(before), RectFromI32(after)>>]

\* A row store resize that gives only the added rows the new length.
ResizedRowsAdded(rs, cols, nrows) ==
    IF Len(rs) # nrows
    THEN [i \in 1..nrows |-> IF i <= Len(rs) THEN rs[i] ELSE RowNew(cols)]
    ELSE rs

\* Context::resize, the row store part: bring the store to nrows rows,
\* new rows being of length cols, then, if the first row is not of length
\* cols, resize every row to cols.
ResizedRows(rs, cols, nrows) ==
    LET rows1 == IF Len(rs) # nrows
                 THEN [i \in 1..nrows |->
                        IF i <= Len(rs) THEN rs[i] ELSE RowNew(cols)]
                 ELSE rs
    IN  IF RowLen(rows1[1]) # cols
        THEN [i \in 1..Len(rows1) |-> RowResize(rows1[i], cols)]
        ELSE rows1

\* A resize that measures the area to keep with the metrics the grid had
\* before it.
ContextResizeOldMetrics(rs, cm, surf, cols, nrows, fmOpt, surfAvail) ==
    LET prev_rows == Len(rs)
        prev_cols == IF Len(rs) > 0 THEN RowLen(rs[1]) ELSE 0
        rows2 == ResizedRows(rs, cols, nrows)
        upd == CellMetricsUpdate(cm, fmOpt)
        alloc == SurfacesNew(upd.cm, nrows, cols, surfAvail)
        keep == [x |-> 0, y |-> 0, width |-> surf.front.w * PangoScale,
                 height |-> surf.front.h * PangoScale]
    IN  IF upd.result # "Ok"
        THEN [result |-> upd.result, rows |-> rows2, cm |-> cm,
              surfaces |-> surf]
        ELSE IF ~IsSome(alloc)
        THEN [result |-> "Cairo", rows |-> rows2, cm |-> upd.cm,
              surfaces |-> surf]
        ELSE LET new == Unwrap(alloc)
                 front == [new.front EXCEPT !.px =
                    [y \in 1..new.front.h |-> [x \in 1..new.front.w |->
                        IF InRect(x - 1, y - 1, keep)
                        THEN PixelAt(surf.front, x - 1, y - 1)
                        ELSE new.front.px[y][x]]]]
             IN  [result |-> "Ok", rows |-> rows2, cm |-> upd.cm,
                  surfaces |-> [new EXCEPT
                                  !.offset_y = surf.offset_y,
                                  !.offset_y_anim = surf.offset_y_anim,
                                  !.front = front]]

\* A resize whose new surface set starts at rest, as allocated.
ContextResizeResting(rs, cm, surf, cols, nrows, fmOpt, surfAvail) ==
    LET prev_rows == Len(rs)
        prev_cols == IF Len(rs) > 0 THEN RowLen(rs[1]) ELSE 0
        rows2 == ResizedRows(rs, cols, nrows)
        upd == CellMetricsUpdate(cm, fmOpt)
        alloc == SurfacesNew(upd.cm, nrows, cols, surfAvail)
        keep == [x |-> 0, y |-> 0, width |-> upd.cm.width * prev_cols,
                 height |-> upd.cm.height * prev_rows]
    IN  IF upd.result # "Ok"
        THEN [result |-> upd.result, rows |-> rows2, cm |-> cm,
              surfaces |-> surf]
        ELSE IF ~IsSome(alloc)
        THEN [result |-> "Cairo", rows |-> rows2, cm |-> upd.cm,
              surfaces |-> surf]
        ELSE LET new == Unwrap(alloc)
                 front == [new.front EXCEPT !.px =
                    [y \in 1..new.front.h |-> [x \in 1..new.front.w |->
                        IF InRect(x - 1, y - 1, keep)
                        THEN PixelAt(surf.front, x - 1, y - 1)
                        ELSE new.front.px[y][x]]]]
             IN  [result |-> "Ok", rows |-> rows2, cm |-> upd.cm,
                  surfaces |-> [new EXCEPT
                                  !.front = front]]

\* Context::resize.  fmOpt is what the measurement backend returns and
\* surfAvail whether the new surfaces can be allocated.
ContextResize(rs, cm, surf, cols, nrows, fmOpt, surfAvail) ==
    LET prev_rows == Len(rs)
        prev_cols == IF Len(rs) > 0 THEN RowLen(rs[1]) ELSE 0
        rows2 == ResizedRows(rs, cols, nrows)
        upd == CellMetricsUpdate(cm, fmOpt)
        alloc == SurfacesNew(upd.cm, nrows, cols, surfAvail)
        keep == [x |-> 0, y |-> 0, width |-> upd.cm.width * prev_cols,
                 height |-> upd.cm.height * prev_rows]
    IN  IF upd.result # "Ok"
        THEN [result |-> upd.result, rows |-> rows2, cm |-> cm,
              surfaces |-> surf]
        ELSE IF ~IsSome(alloc)
        THEN [result |-> "Cairo", rows |-> rows2, cm |-> upd.cm,
              surfaces |-> surf]
        ELSE LET new == Unwrap(alloc)
                 front == [new.front EXCEPT !.px =
                    [y \in 1..new.front.h |-> [x \in 1..new.front.w |->
                        IF InRect(x - 1, y - 1, keep)
                        THEN PixelAt(surf.front, x - 1, y - 1)
                        ELSE new.front.px[y][x]]]]
             IN  [result |-> "Ok", rows |-> rows2, cm |-> upd.cm,
                  surfaces |-> [new EXCEPT
                                  !.offset_y = surf.offset_y,
                                  !.offset_y_anim = surf.offset_y_anim,
                                  !.front = front]]

\* Context::update_metrics.
ContextUpdateMetrics(cm, cc, font, line_space, fmOpt, ccAvail) ==
    LET set == [cm EXCEPT !.font = font, !.line_space = line_space]
        upd == CellMetricsUpdate(set, fmOpt)
        alloc == CursorContextNew(upd.cm, ccAvail)
    IN  IF upd.result # "Ok"
        THEN [result |-> upd.result, cm |-> upd.cm, cursor_context |-> cc]
        ELSE IF ~IsSome(alloc)
        THEN [result |-> "Cairo", cm |-> upd.cm, cursor_context |-> cc]
        ELSE [result |-> "Ok", cm |-> upd.cm,
              cursor_context |-> Unwrap(alloc)]

---------------------------------------------------------------------------
(* Surfaces::tick and Context::tick.                                       *)

\* da.queue_draw(): the whole drawing area, as an entry of `invalidated`.
FullRedraw == [x |-> -1, y |-> -1, width |-> -1, height |-> -1]

\* Surfaces::tick: advance the scroll offset; whether a redraw is needed.
SurfacesTick(surf, ft) ==
    IF ~IsSome(surf.offset_y_anim) THEN [surfaces |-> surf, redraw |-> FALSE]
    ELSE LET a == Unwrap(surf.offset_y_anim)
         IN  IF ft >= a.end_time
             THEN [surfaces |-> [surf EXCEPT !.offset_y = a.end,
                                             !.offset_y_anim = None],
                   redraw |-> TRUE]
             ELSE [surfaces |-> [surf EXCEPT !.offset_y =
                        Lerp(a.start, a.end, ft - a.start_time,
                             a.end_time - a.start_time)],
                   redraw |-> TRUE]

\* A tick that paints the blink phase as it is, without folding it.
ContextTickUnfolded(rs, cm, surf, c, cc, ft) ==
    LET st == SurfacesTick(surf, ft)
        full == IF st.redraw THEN <<FullRedraw>> ELSE <<>>
        before == GetCursorRect(rs, cm, c)
        c2 == CursorTick(c, ft)
        after == GetCursorRect(rs, cm, c2)
    IN  IF c2.blink_on = 0
        THEN [result |-> "Ok", surfaces |-> st.surfaces, cursor |-> c2,
              cursor_context |-> cc, invalidated |-> full \o <<before>>]
        ELSE [result |-> "Ok", surfaces |-> st.surfaces, cursor |-> c2,
              cursor_context |-> [cc EXCEPT !.kind = "fill", !.text = "",
                                            !.hl_id = 0,
                                            !.double_width = TRUE,
                                            !.color = c2.color,
                                            !.alpha = c2.alpha],
              invalidated |-> full \o <<before, after>>]

\* A tick that leaves the scroll animation alone.
ContextTickNoScroll(rs, cm, surf, c, cc, ft) ==
    LET before == GetCursorRect(rs, cm, c)
        c2 == CursorTick(c, ft)
        after == GetCursorRect(rs, cm, c2)
        alpha == IF c2.alpha > AlphaDen THEN 2 * AlphaDen - c2.alpha
                 ELSE c2.alpha
    IN  IF c2.blink_on = 0
        THEN [result |-> "Ok", surfaces |-> surf, cursor |-> c2,
              cursor_context |-> cc, invalidated |-> <<before>>]
        ELSE [result |-> "Ok", surfaces |-> surf, cursor |-> c2,
              cursor_context |-> [cc EXCEPT !.kind = "fill", !.text = "",
                                            !.hl_id = 0,
                                            !.double_width = TRUE,
                                            !.color = c2.color,
                                            !.alpha = alpha],
              invalidated |-> <<before, after>>]

\* A tick that does not advance the cursor.
ContextTickNoCursor(rs, cm, surf, c, cc, ft) ==
    LET st == SurfacesTick(surf, ft)
        full == IF st.redraw THEN <<FullRedraw>> ELSE <<>>
        before == GetCursorRect(rs, cm, c)
        c2 == c
        after == GetCursorRect(rs, cm, c2)
        alpha == IF c2.alpha > AlphaDen THEN 2 * AlphaDen - c2.alpha
                 ELSE c2.alpha
    IN  IF c2.blink_on = 0
        THEN [result |-> "Ok", surfaces |-> st.surfaces, cursor |-> c2,
              cursor_context |-> cc, invalidated |-> full \o <<before>>]
        ELSE [result |-> "Ok", surfaces |-> st.surfaces, cursor |-> c2,
              cursor_context |-> [cc EXCEPT !.kind = "fill", !.text = "",
                                            !.hl_id = 0,
                                            !.double_width = TRUE,
                                            !.color = c2.color,
                                            !.alpha = alpha],
              invalidated |-> full \o <<before, after>>]

\* Context::tick.
ContextTick(rs, cm, surf, c, cc, ft) ==
    LET st == SurfacesTick(surf, ft)
        full == IF st.redraw THEN <<FullRedraw>> ELSE <<>>
        before == GetCursorRect(rs, cm, c)
        c2 == CursorTick(c, ft)
        after == GetCursorRect(rs, cm, c2)
        alpha == IF c2.alpha > AlphaDen THEN 2 * AlphaDen - c2.alpha
                 ELSE c2.alpha
    IN  IF c2.blink_on = 0
        THEN [result |-> "Ok", surfaces |-> st.surfaces, cursor |-> c2,
              cursor_context |-> cc, invalidated |-> full \o <<before>>]
        ELSE [result |-> "Ok", surfaces |-> st.surfaces, cursor |-> c2,
              cursor_context |-> [cc EXCEPT !.kind = "fill", !.text = "",
                                            !.hl_id = 0,
                                            !.double_width = TRUE,
                                            !.color = c2.color,
                                            !.alpha = alpha],
              invalidated |-> full \o <<before, after>>]

---------------------------------------------------------------------------
(* Grid (ui/grid/grid.rs).                                                 *)

\* The i32 rectangle Grid::flush hands to the drawing area for one queued
\* f64 rectangle.
FlushRect(area) ==
    [x |-> ToI32(Floor(area.x)), y |-> ToI32(Floor(area.y)),
     width |-> ToI32(Ceil(area.width)), height |-> ToI32(Ceil(area.height))]

\* render::cursor_cell: the inverted cell drawn on the cursor's surface.
CursorCell(cc, cell) ==
    [cc EXCEPT !.kind = "cell", !.text = cell.text, !.hl_id = cell.hl_id,
               !.double_width = cell.double_width]

\* A flush that walks the queue without popping it.
GridFlushKeep(rs, c, cc, queue) ==
    [result |-> "Ok", cursor |-> c, cursor_context |-> cc, queue |-> queue,
     invalidated |-> [i \in 1..Len(queue) |->
                        FlushRect(queue[Len(queue) + 1 - i])]]

\* Grid::flush: refresh the cursor's surface and color from the cell at the
\* cursor, then pop every queued rectangle and hand it to the drawing area.
GridFlush(rs, c, cc, queue) ==
    LET cell == CellAtCursor(rs, c)
    IN  [result |-> "Ok",
         cursor |-> IF IsSome(cell)
                    THEN [c EXCEPT !.color = Unwrap(cell).hl_id] ELSE c,
         cursor_context |-> IF IsSome(cell) /\ c.blink_on = 0
                            THEN CursorCell(cc, Unwrap(cell)) ELSE cc,
         queue |-> <<>>,
         invalidated |-> [i \in 1..Len(queue) |->
                            FlushRect(queue[Len(queue) + 1 - i])]]

\* Grid::set_mode: take the blink rate and the cell percentage (in percent)
\* of the mode info.
GridSetMode(c, mode) ==
    [c EXCEPT !.blink_on = mode.blink_on,
              !.cell_percentage = mode.cell_percentage]

\* Painting the surface src over dst, moved down by dy (pango units).
PaintOver(dst, src, dy) ==
    [dst EXCEPT !.px =
        [y \in 1..dst.h |-> [x \in 1..dst.w |->
            LET p == PixelAt(src, x - 1, y - 1 - FloorDiv(dy, PangoScale))
            IN  IF p = Transparent THEN dst.px[y][x] ELSE p]]]

\* A paint callback that draws the cursor whenever the grid is active.
DrawingareaDrawBusy(surf, bz, act, rs, cm, c) ==
    LET anim == surf.offset_y_anim
        back_offset == IF IsSome(anim)
                       THEN Some(surf.offset_y - Unwrap(anim).start)
                       ELSE None
        prev1 == IF IsSome(anim)
                 THEN PaintOver(surf.prev, surf.back, Unwrap(back_offset))
                 ELSE surf.prev
        r == GetCursorRect(rs, cm, c)
    IN  [result |-> "Ok",
         surfaces |-> [surf EXCEPT
                         !.prev = PaintOver(prev1, surf.front, surf.offset_y)],
         screen |-> Some([back |-> back_offset, front |-> surf.offset_y,
                          cursor |->
                             IF act
                             THEN Some([x |-> FromI32(r.x), y |-> FromI32(r.y),
                                        width |-> (FromI32(r.width)
                                            * c.cell_percentage) \div 100,
                                        height |-> FromI32(r.height)])
                             ELSE None])]

\* A paint callback that composites the back surface on every frame.
DrawingareaDrawBackAlways(surf, bz, act, rs, cm, c) ==
    LET anim == surf.offset_y_anim
        back_offset == IF IsSome(anim)
                       THEN Some(surf.offset_y - Unwrap(anim).start)
                       ELSE Some(surf.offset_y)
        prev1 == PaintOver(surf.prev, surf.back, Unwrap(back_offset))
        r == GetCursorRect(rs, cm, c)
    IN  [result |-> "Ok",
         surfaces |-> [surf EXCEPT
                         !.prev = PaintOver(prev1, surf.front, surf.offset_y)],
         screen |-> Some([back |-> back_offset, front |-> surf.offset_y,
                          cursor |->
                             IF ~bz /\ act
                             THEN Some([x |-> FromI32(r.x), y |-> FromI32(r.y),
                                        width |-> (FromI32(r.width)
                                            * c.cell_percentage) \div 100,
                                        height |-> FromI32(r.height)])
                             ELSE None])]

\* drawingarea_draw: composite back (while a scroll animation runs) and
\* front onto prev, show prev, and draw the cursor's surface clipped to the
\* cursor rectangle unless the grid is busy or not active.
DrawingareaDraw(surf, bz, act, rs, cm, c) ==
    LET anim == surf.offset_y_anim
        back_offset == IF IsSome(anim)
                       THEN Some(surf.offset_y - Unwrap(anim).start)
                       ELSE None
        prev1 == IF IsSome(anim)
                 THEN PaintOver(surf.prev, surf.back, Unwrap(back_offset))
                 ELSE surf.prev
        r == GetCursorRect(rs, cm, c)
    IN  [result |-> "Ok",
         surfaces |-> [surf EXCEPT
                         !.prev = PaintOver(prev1, surf.front, surf.offset_y)],
         screen |-> Some([back |-> back_offset, front |-> surf.offset_y,
                          cursor |->
                             IF ~bz /\ act
                             THEN Some([x |-> FromI32(r.x), y |-> FromI32(r.y),
                                        width |-> (FromI32(r.width)
                                            * c.cell_percentage) \div 100,
                                        height |-> FromI32(r.height)])
                             ELSE None])]

\* render::get_rect: the corners of the cells [top, bot) x [left, right).
GetRect(col_h, col_w, top, bot, left, right) ==
    LET a == GetCoords(col_h, col_w, top, left)
        b == GetCoords(col_h, col_w, bot, right)
    IN  <<a[1], a[2], b[1], b[2]>>

\* A band over the source rows instead of the destination rows.
ScrollBandSrc(cm, area, left, right) ==
    LET r == GetRect(cm.height, cm.width, area.src_top, area.src_bot,
                     left, right)
    IN  [x |-> r[1], y |-> r[2], width |-> r[3] - r[1],
         height |-> r[4] - r[2]]

\* render::scroll, the rectangle (x1, y1, w, h) it fills and queues: the
\* pixel band of the destination rows over the columns [left, right).
ScrollBand(cm, area, left, right) ==
    LET r == GetRect(cm.height, cm.width, area.dst_top, area.dst_bot,
                     left, right)
    IN  [x |-> r[1], y |-> r[2], width |-> r[3] - r[1],
         height |-> r[4] - r[2]]

\* An animation whose duration is never less than one time unit.
ScrollAnimationClamped(surf, y, speed, ft) ==
    SurfacesSetAnimation(surf, y, Max(speed, 1), ft)

\* render::scroll, its last statement: start the animation over the pixel
\* delta y with the configured scroll speed at the current frame time.
ScrollAnimation(surf, y, speed, ft) ==
    SurfacesSetAnimation(surf, y, speed, ft)

\* render::scroll: move the band on the front surface by the pixel delta,
\* keep what was shown (prev) in back, reset prev to the background, queue
\* the band and start the animation.
RenderScroll(surf, queue, cm, speed, ft, area, left, right) ==
    LET y == GetCoords(cm.height, cm.width,
                       area.dst_top - area.src_top, 0)[2]
        band == ScrollBand(cm, area, left, right)
        front == [surf.front EXCEPT !.px =
            [py \in 1..surf.front.h |-> [px \in 1..surf.front.w |->
                IF InRect(px - 1, py - 1, band)
                THEN PixelAt(surf.front, px - 1, py - 1 - ToI32(y))
                ELSE surf.front.px[py][px]]]]
        moved == [surf EXCEPT
                    !.front = front,
                    !.back = PaintOver(surf.back, surf.prev, 0),
                    !.prev = SurfaceNew(surf.prev.w, surf.prev.h)]
    IN  [result |-> "Ok",
         surfaces |-> ScrollAnimation(moved, y, speed, ft),
         queue |-> Append(queue, band)]

\* A scroll that leaves the rows of the clear range as they were.
GridScrollRowsKept(rs, area, left, right) ==
    LET src == [k \in 1..(area.src_bot - area.src_top) |->
                   RowCopyRange(rs[area.src_top + k], left, right)]
    IN  [i \in 1..Len(rs) |->
            IF i - 1 >= area.dst_top /\ i - 1 < area.dst_bot
            THEN RowInsertAt(rs[i], left, src[i - area.dst_top])
            ELSE rs[i]]

\* A scroll that hands the copied parts out last first.
GridScrollRowsUnreversed(rs, area, left, right) ==
    LET src == [k \in 1..(area.src_bot - area.src_top) |->
                   RowCopyRange(rs[area.src_top + k], left, right)]
        pop(k) == src[Len(src) + 1 - k]
    IN  [i \in 1..Len(rs) |->
            IF i - 1 >= area.dst_top /\ i - 1 < area.dst_bot
            THEN RowInsertAt(rs[i], left, pop(i - area.dst_top))
            ELSE IF i - 1 >= area.clr_top /\ i - 1 < area.clr_bot
            THEN RowClearRange(rs[i], left, right)
            ELSE rs[i]]

\* Grid::scroll, the row store part: copy the columns [left, right) of the
\* source rows, reverse the copies and pop one for each destination row in
\* turn, then clear the columns of the rows of the clear range.
GridScrollRows(rs, area, left, right) ==
    LET src == [k \in 1..(area.src_bot - area.src_top) |->
                   RowCopyRange(rs[area.src_top + k], left, right)]
        rev == ReverseSeq(src)
        pop(k) == rev[Len(rev) + 1 - k]
        moved == [i \in 1..Len(rs) |->
                    IF i - 1 >= area.dst_top /\ i - 1 < area.dst_bot
                    THEN RowInsertAt(rs[i], left, pop(i - area.dst_top))
                    ELSE rs[i]]
    IN  [i \in 1..Len(rs) |->
            IF i - 1 >= area.clr_top /\ i - 1 < area.clr_bot
            THEN RowClearRange(moved[i], left, right)
            ELSE moved[i]]

\* Grid::scroll.
GridScroll(rs, surf, queue, cm, speed, ft, reg, count) ==
    LET area == CalcArea(reg, count)
        r == RenderScroll(surf, queue, cm, speed, ft, area, reg.left,
                          reg.right)
    IN  [result |-> r.result,
         rows |-> GridScrollRows(rs, area, reg.left, reg.right),
         surfaces |-> r.surfaces, queue |-> r.queue]

\* render::clear: fill the drawing area's w by h pixels of the front
\* surface with the default background and queue that rectangle.
RenderClear(front, queue, w, h) ==
    LET area == [x |-> 0, y |-> 0, width |-> FromI32(w),
                 height |-> FromI32(h)]
    IN  [front |-> [front EXCEPT !.px =
                      [py \in 1..front.h |-> [px \in 1..front.w |->
                          IF InRect(px - 1, py - 1, area) THEN Bg
                          ELSE front.px[py][px]]]],
         queue |-> Append(queue, area)]

\* A clear that repaints the drawing area and leaves the row store alone.
GridClearSurfaceOnly(rs, front, queue, w, h) ==
    LET r == RenderClear(front, queue, w, h)
    IN  [result |-> "Ok", rows |-> rs, front |-> r.front, queue |-> r.queue]

\* Grid::clear.
GridClear(rs, front, queue, w, h) ==
    LET r == RenderClear(front, queue, w, h)
    IN  [result |-> "Ok", rows |-> [i \in 1..Len(rs) |-> RowClear(rs[i])],
         front |-> r.front, queue |-> r.queue]

\* Grid::redraw: put the segments of every row, first row first.
RECURSIVE RedrawFrom(_, _, _, _, _)
RedrawFrom(rs, i, front, queue, cm) ==
    IF i > Len(rs) THEN [result |-> "Ok", front |-> front, queue |-> queue]
    ELSE LET put == PutSegments(front, queue, cm,
                                AsSegments(rs[i], 0, RowLen(rs[i])), i - 1)
         IN  RedrawFrom(rs, i + 1, put.front, put.queue, cm)

GridRedraw(rs, front, queue, cm) == RedrawFrom(rs, 1, front, queue, cm)

\* The segments redraw paints, in paint order.
RECURSIVE RedrawLog(_, _)
RedrawLog(rs, i) ==
    IF i > Len(rs) THEN <<>>
    ELSE PaintLog(AsSegments(rs[i], 0, RowLen(rs[i])), i - 1)
         \o RedrawLog(rs, i + 1)

\* The body of put_line once the row is found; `order` is the order in
\* which the affected segments are handed to put_segments.
PutLineOn(rs, front, queue, cm, line, row, segments) ==
    LET put == PutSegments(front, queue, cm, segments, row)
    IN  [result |-> "Ok",
         rows |-> [rs EXCEPT ![row + 1] = RowWrite(@, line)],
         front |-> put.front, queue |-> put.queue,
         painted |-> PaintLog(segments, row)]

\* A put_line that clamps the row index to the last row of the store.
GridPutLineClamped(rs, front, queue, cm, line) ==
    IF Len(rs) = 0
    THEN [result |-> "PutLineRowNotFound", rows |-> rs, front |-> front,
          queue |-> queue, painted |-> <<>>]
    ELSE LET row == Min(line.row, Len(rs) - 1)
         IN  PutLineOn(rs, front, queue, cm, line, row,
                ReverseSeq(AffectedSegments(rs[row + 1], line)))

\* A put_line that paints the affected segments leftmost first.
GridPutLineForward(rs, front, queue, cm, line) ==
    LET rowOpt == RowGet(rs, line.row)
    IN  IF ~IsSome(rowOpt)
        THEN [result |-> "PutLineRowNotFound", rows |-> rs, front |-> front,
              queue |-> queue, painted |-> <<>>]
        ELSE PutLineOn(rs, front, queue, cm, line, line.row,
                       AffectedSegments(Unwrap(rowOpt), line))

\* Grid::put_line: update the row, paint the affected segments rightmost
\* first; a row the store does not have is an error.
GridPutLine(rs, front, queue, cm, line) ==
    LET rowOpt == RowGet(rs, line.row)
    IN  IF ~IsSome(rowOpt)
        THEN [result |-> "PutLineRowNotFound", rows |-> rs, front |-> front,
              queue |-> queue, painted |-> <<>>]
        ELSE PutLineOn(rs, front, queue, cm, line, line.row,
                       ReverseSeq(AffectedSegments(Unwrap(rowOpt), line)))

---------------------------------------------------------------------------
(* The event loop boundary (ui/ui.rs, and the tick callback of Grid::new): *)
(* the result of a handler is unwrapped with expect, so the loop goes on   *)
(* only after an Ok.                                                       *)

Expect(result) == result = "Ok"

OpRec(name, row, col, result) ==
    [name |-> name, row |-> row, col |-> col, result |-> result]

---------------------------------------------------------------------------
(* The grid's widgets (ui/grid/grid.rs) and the window (ui/ui.rs).         *)

\* The delay of the resize timeout of UI::init (30 ms), in units of the
\* main loop's clock of 15 ms.
ResizeDelay == 2

\* The configure-event handler of Grid::connect_da_resize: the rows and
\* cols it hands to the callback for an allocation of w by h pixels.
DaResizeSize(cm, w, h) ==
    [rows |-> FloorDiv(FromI32(h), cm.height),
     cols |-> FloorDiv(FromI32(w), cm.width)]

\* Grid::get_grid_metrics: the size of the row store in cells and in
\* pixels (pango units here); rows.get(0).unwrap() panics on an empty
\* row store.
GridGetGridMetrics(rs, cm) ==
    IF Len(rs) = 0
    THEN [result |-> "Panic", rows |-> 0, cols |-> 0, cell_width |-> 0,
          cell_height |-> 0, width |-> 0, height |-> 0]
    ELSE [result |-> "Ok", rows |-> Len(rs), cols |-> RowLen(rs[1]),
          cell_width |-> cm.width, cell_height |-> cm.height,
          width |-> RowLen(rs[1]) * cm.width,
          height |-> Len(rs) * cm.height]

\* Grid::calc_size: the allocation in pixels divided, as i32, by the cell
\* width and height cast to i32; a division by zero panics.
GridCalcSize(cm, w, h) ==
    LET cw == ToI32(cm.width)
        ch == ToI32(cm.height)
    IN  IF cw = 0 \/ ch = 0
        THEN [result |-> "Panic", cols |-> 0, rows |-> 0]
        ELSE [result |-> "Ok", cols |-> w \div cw, rows |-> h \div ch]

\* Scroll deltas are kept in units of 1 / DeltaDen.
DeltaDen == 2

\* The scroll-event handler of Grid::connect_scroll_events, the part that
\* picks the direction: a discrete direction is passed on; a smooth event
\* adds its deltas to scroll_delta and yields a direction when dy, or
\* else dx, has reached -1.0 or 1.0; any other event yields none.
ScrollEventDir(delta, direction, smooth) ==
    LET dx == delta[1] + smooth[1]
        dy == delta[2] + smooth[2]
    IN  IF direction \in {"Right", "Left", "Up", "Down"}
        THEN [delta |-> delta, dir |-> Some(direction)]
        ELSE IF direction # "Smooth"
        THEN [delta |-> delta, dir |-> None]
        ELSE IF dy <= -DeltaDen
        THEN [delta |-> <<dx, 0>>, dir |-> Some("Up")]
        ELSE IF dy >= DeltaDen
        THEN [delta |-> <<dx, 0>>, dir |-> Some("Down")]
        ELSE IF dx <= -DeltaDen
        THEN [delta |-> <<0, dy>>, dir |-> Some("Left")]
        ELSE IF dx >= DeltaDen
        THEN [delta |-> <<0, dy>>, dir |-> Some("Right")]
        ELSE [delta |-> <<dx, dy>>, dir |-> None]

\* The same handler, the part that calls the callback f(dir, row, col)
\* with the cell under the pointer at (x, y) pixels.
GridScrollEvent(cm, delta, direction, smooth, x, y) ==
    LET r == ScrollEventDir(delta, direction, smooth)
    IN  [delta |-> r.delta,
         called |-> IF IsSome(r.dir)
                    THEN Some([dir |-> Unwrap(r.dir),
                               row |-> FloorDiv(FromI32(y), cm.height),
                               col |-> FloorDiv(FromI32(x), cm.width)])
                    ELSE None]

\* A resize callback that leaves the timeout it tracked in the main loop.
UiOnDaResizeKeep(src, pending, new, t, nrows, ncols) ==
    [source_id |-> Some(new),
     timeouts |-> pending \cup {[id |-> new, due |-> t + ResizeDelay,
                                 rows |-> nrows, cols |-> ncols]}]

\* The callback UI::init connects to the resize events: add a timeout
\* (the main loop names it `new`), remove the one source_id tracks, if
\* any, and track the new one.
UiOnDaResize(src, pending, new, t, nrows, ncols) ==
    LET added == pending \cup {[id |-> new, due |-> t + ResizeDelay,
                                rows |-> nrows, cols |-> ncols]}
    IN  [source_id |-> Some(new),
         timeouts |-> IF IsSome(src)
                      THEN {x \in added : x.id # Unwrap(src)}
                      ELSE added]

\* The timeout's closure: ask nvim for cols by rows, forget the tracked
\* source; Continue(false) then removes the timeout from the main loop.
UiResizeTimeout(src, pending, sent, t) ==
    [source_id |-> None,
     timeouts |-> pending \ {t},
     nvim |-> Append(sent, <<t.cols, t.rows>>)]

---------------------------------------------------------------------------
(* Inputs.                                                                 *)

CellIn(text, hl_id, repeat, double_width) ==
    [text |-> text, hl_id |-> hl_id, repeat |-> repeat,
     double_width |-> double_width]

\* Two cells of different highlights.
CellsAB == <<CellIn("A", 0, 1, FALSE), CellIn("B", 1, 1, FALSE)>>

\* A double-width character and its empty continuation cell.
CellsWide == <<CellIn("W", 0, 1, TRUE), CellIn("", 0, 1, FALSE)>>

\* One cell repeated twice.
CellsRepeat == <<CellIn("B", 1, 2, FALSE)>>

\* Line updates with the given cells for the first and the last row; row
\* MaxRows is a row no grid of the model has.
LinesOf(cellSeqs) ==
    [row : {0, MaxRows - 1}, col_start : 0..1, cells : cellSeqs]
    \cup [row : {MaxRows}, col_start : {0}, cells : cellSeqs]

\* The editor sends only updates that fit the row they are for.
LineFits(line) ==
    line.row < Len(rows) =>
        line.col_start + Len(ExpandCells(line.cells))
            <= RowLen(rows[line.row + 1])

\* The grid sizes the editor asks for.
Sizes == {<<MaxCols - 1, MaxRows - 1>>, <<MaxCols, MaxRows>>}

---------------------------------------------------------------------------
(* The state machine.                                                      *)

\* Context::new, as Grid::new calls it.
InitContext(font, line_space, enable_cursor_animations, speed) ==
    /\ rows = <<>>
    /\ cell_metrics =
         CellMetricsUpdate(CellMetricsDefault(font, line_space),
                           BackendMetrics(font, TRUE)).cm
    /\ surfaces = Unwrap(SurfacesNew(cell_metrics, InitRows, InitCols, TRUE))
    /\ cursor = CursorDefault(~enable_cursor_animations)
    /\ cursor_context = Unwrap(CursorContextNew(cell_metrics, TRUE))
    /\ queue_draw_area = <<>>
    /\ busy = FALSE
    /\ active = FALSE
    /\ scroll_speed = speed
    /\ screen = None
    /\ scrolled = <<>>
    /\ frame_time = 0
    /\ running = TRUE
    /\ op = OpRec("new", InitRows, InitCols, "Ok")
    /\ painted = <<>>
    /\ invalidated = <<>>
    /\ da = [w |-> surfaces.front.w, h |-> surfaces.front.h]
    /\ scroll_delta = <<0, 0>>
    /\ source_id = None
    /\ timeouts = {}
    /\ next_source = 1
    /\ now = 0
    /\ nvim = <<>>

\* The default grid of UI::init.
Init == InitContext("F1", 0, TRUE, 2)

\* A handler that is no scroll and touches none of busy, active,
\* scroll_speed and the screen.
FlagsKept ==
    /\ scrolled' = <<>>
    /\ UNCHANGED host
    /\ UNCHANGED <<busy, active, scroll_speed, screen>>

\* Grid::resize.
Resize(cols, nrows, fmAvail, surfAvail) ==
    /\ running
    /\ FlagsKept
    /\ \E r \in {ContextResize(rows, cell_metrics, surfaces, cols, nrows,
                   BackendMetrics(cell_metrics.font, fmAvail), surfAvail)} :
           /\ rows' = r.rows
           /\ cell_metrics' = r.cm
           /\ surfaces' = r.surfaces
           /\ op' = OpRec("resize", nrows, cols, r.result)
           /\ running' = Expect(r.result)
    /\ painted' = <<>>
    /\ invalidated' = <<>>
    /\ UNCHANGED <<cursor, cursor_context, queue_draw_area, frame_time>>

\* Grid::update_cell_metrics.
UpdateMetrics(font, line_space, fmAvail, ccAvail) ==
    /\ running
    /\ FlagsKept
    /\ \E r \in {ContextUpdateMetrics(cell_metrics, cursor_context, font,
                   line_space, BackendMetrics(font, fmAvail), ccAvail)} :
           /\ cell_metrics' = r.cm
           /\ cursor_context' = r.cursor_context
           /\ op' = OpRec("update_metrics", 0, 0, r.result)
           /\ running' = Expect(r.result)
    /\ painted' = <<>>
    /\ invalidated' = <<>>
    /\ UNCHANGED <<rows, surfaces, cursor, queue_draw_area, frame_time>>

\* Grid::put_line.
PutLine(line) ==
    /\ running
    /\ FlagsKept
    /\ LineFits(line)
    /\ \E r \in {GridPutLine(rows, surfaces.front, queue_draw_area,
                            cell_metrics, line)} :
           /\ Len(r.queue) <= MaxQueue
           /\ rows' = r.rows
           /\ surfaces' = [surfaces EXCEPT !.front = r.front]
           /\ queue_draw_area' = r.queue
           /\ painted' = r.painted
           /\ op' = OpRec("put_line", line.row, line.col_start, r.result)
           /\ running' = Expect(r.result)
    /\ invalidated' = <<>>
    /\ UNCHANGED <<cell_metrics, cursor, cursor_context, frame_time>>

\* Grid::flush.
Flush ==
    /\ running
    /\ FlagsKept
    /\ \E r \in {GridFlush(rows, cursor, cursor_context, queue_draw_area)} :
           /\ cursor' = r.cursor
           /\ cursor_context' = r.cursor_context
           /\ queue_draw_area' = r.queue
           /\ invalidated' = r.invalidated
           /\ op' = OpRec("flush", 0, 0, r.result)
           /\ running' = Expect(r.result)
    /\ painted' = <<>>
    /\ UNCHANGED <<rows, cell_metrics, surfaces, frame_time>>

\* Grid::cursor_goto.
CursorGotoEv(row, col) ==
    /\ running
    /\ FlagsKept
    /\ Len(queue_draw_area) + 2 <= MaxQueue
    /\ \E r \in {ContextCursorGoto(rows, cell_metrics, cursor,
                                  queue_draw_area, row, col, frame_time)} :
           /\ cursor' = r.cursor
           /\ queue_draw_area' = r.queue
    /\ op' = OpRec("cursor_goto", row, col, "Ok")
    /\ painted' = <<>>
    /\ invalidated' = <<>>
    /\ UNCHANGED <<rows, cell_metrics, surfaces, cursor_context, frame_time,
                   running>>

\* The tick callback of Grid::new, at a frame dt after the last one.
Tick(dt) ==
    /\ running
    /\ FlagsKept
    /\ frame_time + dt <= MaxTime
    /\ frame_time' = frame_time + dt
    /\ \E r \in {ContextTick(rows, cell_metrics, surfaces, cursor,
                            cursor_context, frame_time + dt)} :
           /\ surfaces' = r.surfaces
           /\ cursor' = r.cursor
           /\ cursor_context' = r.cursor_context
           /\ invalidated' = r.invalidated
           /\ op' = OpRec("tick", 0, 0, r.result)
           /\ running' = Expect(r.result)
    /\ painted' = <<>>
    /\ UNCHANGED <<rows, cell_metrics, queue_draw_area>>

\* Grid::set_mode.
SetMode(blink_on, cell_percentage) ==
    /\ running
    /\ cursor' = GridSetMode(cursor, [blink_on |-> blink_on,
                                      cell_percentage |-> cell_percentage])
    /\ op' = OpRec("set_mode", 0, 0, "Ok")
    /\ painted' = <<>>
    /\ invalidated' = <<>>
    /\ scrolled' = <<>>
    /\ UNCHANGED host
    /\ UNCHANGED <<rows, cell_metrics, surfaces, cursor_context,
                   queue_draw_area, busy, active, scroll_speed, frame_time,
                   running, screen>>

\* Grid::enable_cursor_animations.
EnableCursorAnimations(enable) ==
    /\ running
    /\ cursor' = [cursor EXCEPT !.disable_animation = ~enable]
    /\ op' = OpRec("enable_cursor_animations", 0, 0, "Ok")
    /\ painted' = <<>>
    /\ invalidated' = <<>>
    /\ scrolled' = <<>>
    /\ UNCHANGED host
    /\ UNCHANGED <<rows, cell_metrics, surfaces, cursor_context,
                   queue_draw_area, busy, active, scroll_speed, frame_time,
                   running, screen>>

\* Grid::set_busy.
SetBusy(b) ==
    /\ running
    /\ busy' = b
    /\ op' = OpRec("set_busy", 0, 0, "Ok")
    /\ painted' = <<>>
    /\ invalidated' = <<>>
    /\ scrolled' = <<>>
    /\ UNCHANGED host
    /\ UNCHANGED <<rows, cell_metrics, surfaces, cursor, cursor_context,
                   queue_draw_area, active, scroll_speed, frame_time,
                   running, screen>>

\* Grid::set_active.
SetActive(a) ==
    /\ running
    /\ active' = a
    /\ op' = OpRec("set_active", 0, 0, "Ok")
    /\ painted' = <<>>
    /\ invalidated' = <<>>
    /\ scrolled' = <<>>
    /\ UNCHANGED host
    /\ UNCHANGED <<rows, cell_metrics, surfaces, cursor, cursor_context,
                   queue_draw_area, busy, scroll_speed, frame_time,
                   running, screen>>

\* The draw callback of Grid::new.
Draw ==
    /\ running
    /\ \E r \in {DrawingareaDraw(surfaces, busy, active, rows, cell_metrics,
                                  cursor)} :
           /\ surfaces' = r.surfaces
           /\ screen' = r.screen
           /\ op' = OpRec("draw", 0, 0, r.result)
           /\ running' = Expect(r.result)
    /\ painted' = <<>>
    /\ invalidated' = <<>>
    /\ scrolled' = <<>>
    /\ UNCHANGED host
    /\ UNCHANGED <<rows, cell_metrics, cursor, cursor_context,
                   queue_draw_area, busy, active, scroll_speed, frame_time>>

\* A configure event of the drawing area, allocated w by h pixels: the
\* handler of Grid::connect_da_resize and the callback of UI::init.
DaResize(w, h) ==
    /\ running
    /\ next_source <= MaxSources
    /\ now + ResizeDelay <= MaxNow
    /\ da' = [w |-> w, h |-> h]
    /\ LET size == DaResizeSize(cell_metrics, w, h)
           r == UiOnDaResize(source_id, timeouts, next_source, now,
                             size.rows, size.cols)
       IN  /\ source_id' = r.source_id
           /\ timeouts' = r.timeouts
           /\ op' = OpRec("da_resize", size.rows, size.cols, "Ok")
    /\ next_source' = next_source + 1
    /\ painted' = <<>>
    /\ invalidated' = <<>>
    /\ scrolled' = <<>>
    /\ UNCHANGED <<rows, cell_metrics, surfaces, cursor, cursor_context,
                   queue_draw_area, busy, active, scroll_speed, frame_time,
                   running, screen, scroll_delta, now, nvim>>

\* The main loop dispatches a timeout that is due.
ResizeTimeout ==
    /\ running
    /\ \E t \in timeouts :
          /\ t.due <= now
          /\ LET r == UiResizeTimeout(source_id, timeouts, nvim, t)
             IN  /\ source_id' = r.source_id
                 /\ timeouts' = r.timeouts
                 /\ nvim' = r.nvim
          /\ op' = OpRec("resize_timeout", t.rows, t.cols, "Ok")
    /\ painted' = <<>>
    /\ invalidated' = <<>>
    /\ scrolled' = <<>>
    /\ UNCHANGED <<rows, cell_metrics, surfaces, cursor, cursor_context,
                   queue_draw_area, busy, active, scroll_speed, frame_time,
                   running, screen, da, scroll_delta, next_source, now>>

\* The main loop's clock advances; no handler runs.
Pass ==
    /\ running
    /\ now < MaxNow
    /\ now' = now + 1
    /\ UNCHANGED <<rows, cell_metrics, surfaces, cursor, cursor_context,
                   queue_draw_area, busy, active, scroll_speed, frame_time,
                   running, op, painted, invalidated, screen, scrolled, da,
                   scroll_delta, source_id, timeouts, next_source, nvim>>

\* A scroll event of the event box: its direction, its smooth deltas and
\* the pointer's position.  The last callback is kept in op: its
\* direction as the result ("None" when the callback was not called).
ScrollEvent(direction, smooth, x, y) ==
    /\ running
    /\ LET r == GridScrollEvent(cell_metrics, scroll_delta, direction,
                                smooth, x, y)
       IN  /\ r.delta[1] \in (-MaxDelta)..MaxDelta
           /\ r.delta[2] \in (-MaxDelta)..MaxDelta
           /\ scroll_delta' = r.delta
           /\ op' = IF IsSome(r.called)
                     THEN OpRec("scroll_event", Unwrap(r.called).row,
                                Unwrap(r.called).col, Unwrap(r.called).dir)
                     ELSE OpRec("scroll_event", 0, 0, "None")
    /\ painted' = <<>>
    /\ invalidated' = <<>>
    /\ scrolled' = <<>>
    /\ UNCHANGED <<rows, cell_metrics, surfaces, cursor, cursor_context,
                   queue_draw_area, busy, active, scroll_speed, frame_time,
                   running, screen, da, source_id, timeouts, next_source,
                   now, nvim>>

\* Grid::calc_size, on the drawing area as it is allocated.
CalcSize ==
    /\ running
    /\ \E r \in {GridCalcSize(cell_metrics, da.w, da.h)} :
           /\ op' = OpRec("calc_size", r.rows, r.cols, r.result)
           /\ running' = Expect(r.result)
    /\ painted' = <<>>
    /\ invalidated' = <<>>
    /\ scrolled' = <<>>
    /\ UNCHANGED <<rows, cell_metrics, surfaces, cursor, cursor_context,
                   queue_draw_area, busy, active, scroll_speed, frame_time,
                   screen>>
    /\ UNCHANGED host

\* Grid::get_grid_metrics.
GetGridMetrics ==
    /\ running
    /\ \E r \in {GridGetGridMetrics(rows, cell_metrics)} :
           /\ op' = OpRec("get_grid_metrics", r.rows, r.cols, r.result)
           /\ running' = Expect(r.result)
    /\ painted' = <<>>
    /\ invalidated' = <<>>
    /\ scrolled' = <<>>
    /\ UNCHANGED <<rows, cell_metrics, surfaces, cursor, cursor_context,
                   queue_draw_area, busy, active, scroll_speed, frame_time,
                   screen>>
    /\ UNCHANGED host

\* Grid::scroll.
Scroll(reg, count) ==
    /\ running
    /\ reg.bot <= Len(rows)
    /\ reg.right <= RowLen(rows[1])
    /\ Len(queue_draw_area) + 1 <= MaxQueue
    /\ \E r \in {GridScroll(rows, surfaces, queue_draw_area, cell_metrics,
                             scroll_speed, frame_time, reg, count)} :
           /\ rows' = r.rows
           /\ surfaces' = r.surfaces
           /\ queue_draw_area' = r.queue
           /\ op' = OpRec("scroll", reg.top, reg.left, r.result)
           /\ running' = Expect(r.result)
    /\ scrolled' = LET e == [reg |-> reg, count |-> count, rows |-> rows]
                   IN  IF Len(scrolled) = 2 THEN <<scrolled[2], e>>
                       ELSE Append(scrolled, e)
    /\ UNCHANGED host
    /\ painted' = <<>>
    /\ invalidated' = <<>>
    /\ UNCHANGED <<cell_metrics, cursor, cursor_context, busy, active,
                   scroll_speed, frame_time, screen>>

\* Grid::clear, on a drawing area of w by h pixels.
Clear(w, h) ==
    /\ running
    /\ FlagsKept
    /\ Len(queue_draw_area) + 1 <= MaxQueue
    /\ \E r \in {GridClear(rows, surfaces.front, queue_draw_area, w, h)} :
           /\ rows' = r.rows
           /\ surfaces' = [surfaces EXCEPT !.front = r.front]
           /\ queue_draw_area' = r.queue
           /\ op' = OpRec("clear", 0, 0, r.result)
           /\ running' = Expect(r.result)
    /\ painted' = <<>>
    /\ invalidated' = <<>>
    /\ UNCHANGED <<cell_metrics, cursor, cursor_context, frame_time>>

\* Grid::redraw.
Redraw ==
    /\ running
    /\ FlagsKept
    /\ \E r \in {GridRedraw(rows, surfaces.front, queue_draw_area,
                             cell_metrics)} :
           /\ Len(r.queue) <= MaxQueue
           /\ surfaces' = [surfaces EXCEPT !.front = r.front]
           /\ queue_draw_area' = r.queue
           /\ op' = OpRec("redraw", 0, 0, r.result)
           /\ running' = Expect(r.result)
    /\ painted' = RedrawLog(rows, 1)
    /\ invalidated' = <<>>
    /\ UNCHANGED <<rows, cell_metrics, cursor, cursor_context, frame_time>>

\* Line updates and flushes on a grid the editor resizes.
Next ==
    \/ \E size \in Sizes : Resize(size[1], size[2], TRUE, TRUE)
    \/ \E line \in LinesOf({CellsAB, CellsWide}) : PutLine(line)
    \/ Flush

Spec == Init /\ [][Next]_vars

\* Resizes and font changes, with a backend that may fail.
NextMetrics ==
    \/ \E size \in Sizes, fmAvail \in BOOLEAN, surfAvail \in BOOLEAN :
          Resize(size[1], size[2], fmAvail, surfAvail)
    \/ \E font \in Fonts, line_space \in LineSpaces, fmAvail \in BOOLEAN,
          ccAvail \in BOOLEAN :
          UpdateMetrics(font, line_space, fmAvail, ccAvail)

SpecMetrics == Init /\ [][NextMetrics]_vars

\* A grid of any font: line updates of every start and length.
InitGeom == \E font \in Fonts : InitContext(font, 0, TRUE, 2)

NextGeom ==
    \/ Resize(MaxCols, MaxRows, TRUE, TRUE)
    \/ \E line \in LinesOf({CellsAB, CellsRepeat}) : PutLine(line)
    \/ Flush

SpecGeom == InitGeom /\ [][NextGeom]_vars

\* The cells the editor sends the cursor to; row MaxRows is outside the grid.
CursorTargets == {<<0, 0>>, <<1, 2>>, <<MaxRows, 0>>}

\* The cursor: moves and frame ticks over a grid with double-width cells,
\* with the cursor animation enabled or disabled.
InitCursor == \E enable \in BOOLEAN : InitContext("F1", 0, enable, 2)

NextCursor ==
    \/ Resize(MaxCols, MaxRows, TRUE, TRUE)
    \/ PutLine([row |-> 0, col_start |-> 0, cells |-> CellsWide])
    \/ \E target \in CursorTargets : CursorGotoEv(target[1], target[2])
    \/ \E dt \in 0..1 : Tick(dt)
    \/ Flush

SpecCursor == InitCursor /\ [][NextCursor]_vars

\* Every handler that leaves the size of the row store alone, on a grid
\* the editor resizes, with a measurement backend that may fail.
NextRows ==
    \/ \E size \in Sizes, fmAvail \in BOOLEAN :
          Resize(size[1], size[2], fmAvail, TRUE)
    \/ PutLine([row |-> 0, col_start |-> 0, cells |-> CellsAB])
    \/ Scroll([top |-> 0, bot |-> MaxRows, left |-> 0,
               right |-> MaxCols - 1], 1)
    \/ Clear(surfaces.front.w, surfaces.front.h)
    \/ Redraw
    \/ CursorGotoEv(0, 0)
    \/ Tick(1)
    \/ Flush

\* A grid without scroll animation.
InitStill == InitContext("F1", 0, TRUE, 0)

SpecRows == InitStill /\ [][NextRows]_vars

\* The mode infos of the model: steady block, fast blinking bar, slow
\* blinking block; cell_percentage is in percent.
Modes ==
    {[blink_on |-> 0, cell_percentage |-> 100],
     [blink_on |-> 1, cell_percentage |-> 25],
     [blink_on |-> 2, cell_percentage |-> 100]}

\* The cells the cursor is sent to here: a cell of the grid and one outside.
BlinkTargets == {<<0, 0>>, <<MaxRows, 0>>}

\* The blinking cursor: mode changes, cursor moves, frame ticks and flushes.
NextBlink ==
    \/ Resize(MaxCols, MaxRows, TRUE, TRUE)
    \/ \E target \in BlinkTargets : CursorGotoEv(target[1], target[2])
    \/ \E mode \in Modes : SetMode(mode.blink_on, mode.cell_percentage)
    \/ \E dt \in 0..1 : Tick(dt)
    \/ Flush

SpecBlink == Init /\ [][NextBlink]_vars

\* The paint callback under busy and active changes, with a cursor that
\* moves and blinks.
NextDraw ==
    \/ \E target \in BlinkTargets : CursorGotoEv(target[1], target[2])
    \/ \E mode \in {m \in Modes : m.blink_on < 2} :
          SetMode(mode.blink_on, mode.cell_percentage)
    \/ \E b \in BOOLEAN : SetBusy(b)
    \/ \E a \in BOOLEAN : SetActive(a)
    \/ Tick(1)
    \/ Flush
    \/ Draw

SpecDraw == Init /\ [][NextDraw]_vars

\* Resizes between font changes, on a grid with text: what a resize keeps
\* of the front surface.
NextSalvage ==
    \/ \E size \in Sizes : Resize(size[1], size[2], TRUE, TRUE)
    \/ \E font \in Fonts : UpdateMetrics(font, 0, TRUE, TRUE)
    \/ \E row \in {0, MaxRows - 1} :
          PutLine([row |-> row, col_start |-> 0, cells |-> CellsAB])
    \/ Flush

SpecSalvage == InitGeom /\ [][NextSalvage]_vars

\* The line the editor sends for a row: text and a double-width character
\* for the first two rows.
LineOfRow(row) ==
    [row |-> row, col_start |-> 0,
     cells |-> IF row = 0 THEN CellsAB
               ELSE IF row = 1 THEN CellsWide ELSE CellsRepeat]

\* The scroll region of the model: every row of the grid, over all the
\* columns but the first.
Region == [top |-> 0, bot |-> ScrollRows, left |-> 1, right |-> MaxCols]

\* Scrolls of a grid of ScrollRows rows with text, up and down by one and
\* by two rows, without scroll animation.
NextScroll ==
    \/ Resize(MaxCols, ScrollRows, TRUE, TRUE)
    \/ \E row \in 0..1 : PutLine(LineOfRow(row))
    \/ \E count \in {-2, -1, 1, 2} : Scroll(Region, count)
    \/ Flush

SpecScroll == InitStill /\ [][NextScroll]_vars

\* The scroll speeds of the model: negative, zero, and two time units.
ScrollSpeeds == {-1, 0, 2}

\* Scrolls at each scroll speed, with frame ticks.
InitScrollAnim ==
    \E speed \in ScrollSpeeds : InitContext("F1", 0, TRUE, speed)

NextScrollAnim ==
    \/ Resize(MaxCols, ScrollRows, TRUE, TRUE)
    \/ PutLine(LineOfRow(0))
    \/ \E count \in {-1, 1} : Scroll(Region, count)
    \/ \E dt \in 0..1 : Tick(dt)
    \/ Flush

SpecScrollAnim == InitScrollAnim /\ [][NextScrollAnim]_vars

\* A scroll whose animation ends within the frame times of the model.
ScrollInTime(reg, count) ==
    /\ frame_time + scroll_speed <= MaxTime
    /\ Scroll(reg, count)

\* Scroll animations under a frame clock that keeps advancing: the frame
\* callback fires again and again, each time at a later frame time.
InitAnimLive == \E speed \in 1..MaxTime : InitContext("F1", 0, TRUE, speed)

NextAnimLive ==
    \/ Resize(MaxCols, ScrollRows, TRUE, TRUE)
    \/ PutLine(LineOfRow(0))
    \/ \E count \in {-1, 1} : ScrollInTime(Region, count)
    \/ \E dt \in 0..1 : Tick(dt)
    \/ Flush

SpecAnimLive ==
    InitAnimLive /\ [][NextAnimLive]_vars /\ WF_vars(Tick(1))

\* Frame ticks, some at a frame time that has not advanced, while a scroll
\* animation runs, the cursor moves and the cursor blinks.
NextTick ==
    \/ Resize(MaxCols, ScrollRows, TRUE, TRUE)
    \/ Scroll(Region, 1)
    \/ \E col \in {0, MaxCols - 1} : CursorGotoEv(0, col)
    \/ SetMode(1, 25)
    \/ \E dt \in 0..1 : Tick(dt)
    \/ Flush

SpecTick == Init /\ [][NextTick]_vars

\* Every handler of the grid that runs outside the paint callback, in
\* any order.
NextQueue ==
    \/ Resize(MaxCols, MaxRows, TRUE, TRUE)
    \/ UpdateMetrics("F1", 0, TRUE, TRUE)
    \/ PutLine([row |-> 0, col_start |-> 0, cells |-> CellsAB])
    \/ Scroll([top |-> 0, bot |-> MaxRows, left |-> 0, right |-> MaxCols], 1)
    \/ Clear(surfaces.front.w, surfaces.front.h)
    \/ Redraw
    \/ CursorGotoEv(0, 1)
    \/ SetMode(1, 25)
    \/ SetBusy(TRUE)
    \/ SetActive(FALSE)
    \/ Tick(1)
    \/ Flush

\* A grid without scroll or cursor animation.
InitQueue == InitContext("F1", 0, FALSE, 0)

SpecQueue == InitQueue /\ [][NextQueue]_vars

\* Resizes between two heights, with a surface allocation that may
\* fail, while scrolls animate and the frame clock ticks.
NextResizeAnim ==
    \/ \E nrows \in {ScrollRows, ScrollRows + 1}, surfAvail \in BOOLEAN :
          Resize(MaxCols, nrows, TRUE, surfAvail)
    \/ \E count \in {-1, 1} : Scroll(Region, count)
    \/ \E dt \in 0..1 : Tick(dt)
    \/ Flush

SpecResizeAnim == Init /\ [][NextResizeAnim]_vars

\* The cells the cursor is sent to: the first and the last of the grid.
MoveTargets == {<<0, 0>>, <<MaxRows - 1, MaxCols - 1>>}

\* A cursor_goto whose move, if it is animated, can end within the frame
\* times of the model.
CursorGotoInTime(row, col) ==
    /\ \/ cursor.disable_animation
       \/ ~IsSome(cursor.pos)
       \/ frame_time + CursorDuration <= MaxTime
    /\ CursorGotoEv(row, col)

\* Cursor moves with the animation switched on and off, and a frame clock
\* that keeps ticking.
NextCursorLive ==
    \/ Resize(MaxCols, MaxRows, TRUE, TRUE)
    \/ \E target \in MoveTargets : CursorGotoInTime(target[1], target[2])
    \/ \E enable \in BOOLEAN : EnableCursorAnimations(enable)
    \/ \E dt \in 0..1 : Tick(dt)
    \/ Flush

SpecCursorLive ==
    InitCursor /\ [][NextCursorLive]_vars /\ WF_vars(Tick(1))

\* Paint callbacks between scrolls of a grid with text and the ticks of
\* their animation.
NextCompose ==
    \/ Resize(MaxCols, ScrollRows, TRUE, TRUE)
    \/ PutLine(LineOfRow(0))
    \/ Scroll(Region, 1)
    \/ Tick(1)
    \/ Flush
    \/ Draw

SpecCompose == Init /\ [][NextCompose]_vars

\* The allocations of the drawing area, in pixels.
DaWidths == {2, 3, 5}

DaHeights == {2, 5}

\* Resize events of the drawing area at any time, on a grid of any font,
\* with a main loop that keeps running: its clock advances and it
\* dispatches the timeouts that are due.
NextDebounce ==
    \/ \E w \in DaWidths, h \in DaHeights : DaResize(w, h)
    \/ ResizeTimeout
    \/ Pass

SpecDebounce ==
    InitGeom /\ [][NextDebounce]_vars /\ WF_vars(ResizeTimeout)
    /\ WF_vars(Pass)

\* The smooth deltas of one scroll event, per axis.
SmoothDeltas == {-1, 0, 1, 3}

ScrollDirections == {"Up", "Down", "Left", "Right", "Smooth", "Other"}

\* Scroll events of every direction over the pointer at two positions.
NextScrollEvents ==
    \E direction \in ScrollDirections, sdx \in SmoothDeltas,
       sdy \in SmoothDeltas, x \in {0, 2} :
       /\ direction # "Smooth" => (sdx = 0 /\ sdy = 0)
       /\ ScrollEvent(direction, <<sdx, sdy>>, x, 0)

SpecScrollEvents == Init /\ [][NextScrollEvents]_vars

\* The size of the grid asked for after the drawing area was resized or
\* the font changed.
NextCalcSize ==
    \/ \E w \in DaWidths, h \in DaHeights : DaResize(w, h)
    \/ \E font \in Fonts : UpdateMetrics(font, 0, TRUE, TRUE)
    \/ CalcSize

SpecCalcSize == Init /\ [][NextCalcSize]_vars

\* A grid of any font from its construction on, before the first resize
\* event: the handlers that can run on it.
NextNew ==
    \/ PutLine([row |-> 0, col_start |-> 0, cells |-> CellsAB])
    \/ GetGridMetrics
    \/ \E col \in 0..(InitCols - 1) : CursorGotoEv(0, col)
    \/ \E b \in BOOLEAN : SetBusy(b)
    \/ \E a \in BOOLEAN : SetActive(a)
    \/ Tick(1)
    \/ Flush
    \/ Draw

SpecNew == InitGeom /\ [][NextNew]_vars

\* The same, for a grid of any font.
InitCursorGeom == \E font \in Fonts : InitContext(font, 0, TRUE, 2)

SpecCursorGeom == InitCursorGeom /\ [][NextCursor]_vars

---------------------------------------------------------------------------
(* Claims.                                                                 *)

\* The queue entry of the i-th segment the last put_line painted.
QueuedFor(i) ==
    queue_draw_area[Len(queue_draw_area) - Len(painted) + i]

PutLineOk == op.name = "put_line" /\ op.result = "Ok"

\* C1: put_line for a row index the row store does not have returns the
\* row-not-found error and leaves the row store, the surfaces and the
\* pending dirty-rectangle queue unchanged.
C1_RowNotFound ==
    [][(op'.name = "put_line" /\ op'.row >= Len(rows)) =>
          /\ op'.result = "PutLineRowNotFound"
          /\ rows' = rows
          /\ surfaces' = surfaces
          /\ queue_draw_area' = queue_draw_area]_vars

C1_Witness ==
    /\ op.name = "put_line" /\ op.result = "PutLineRowNotFound"
    /\ Len(rows) > 0 /\ op.row >= Len(rows)

\* C2: when handling an event fails, the event loop keeps running.
C2_FailureKeepsRunning == [][op'.result # "Ok" => running']_vars

\* C3: a resize that fails leaves the row store, the cell metrics and the
\* surface set as they were before the call.
C3_FailedResizeKeepsContext ==
    [][(op'.name = "resize" /\ op'.result # "Ok") =>
          /\ rows' = rows
          /\ cell_metrics' = cell_metrics
          /\ surfaces' = surfaces]_vars

\* C4: an update_metrics that fails for want of metrics leaves the cell
\* metrics, font and line_space included, and the cursor surface as they
\* were before the call.
C4_FailedUpdateKeepsMetrics ==
    [][(op'.name = "update_metrics" /\ op'.result = "GetPangoMetrics") =>
          /\ cell_metrics' = cell_metrics
          /\ cursor_context' = cursor_context]_vars

\* C5: put_line paints the affected segments rightmost first: of two
\* segments of one update the one with the larger start column is painted,
\* and its rectangle queued, first.
C5_RightmostFirst ==
    PutLineOk =>
        /\ Len(queue_draw_area) >= Len(painted)
        /\ \A i, j \in 1..Len(painted) :
              i < j => painted[i].start > painted[j].start
        /\ \A i \in 1..Len(painted) :
              /\ QueuedFor(i).x <= painted[i].start * cell_metrics.width
              /\ painted[i].start * cell_metrics.width
                    < QueuedFor(i).x + PangoScale

C5_Witness == PutLineOk /\ Len(painted) >= 2

\* C6: flush hands every queued rectangle to the drawing area exactly once
\* and leaves the queue empty; a flush right after a flush hands over none.
C6_FlushDrains ==
    [][op'.name = "flush" =>
          /\ queue_draw_area' = <<>>
          /\ Len(invalidated') = Len(queue_draw_area)
          /\ \A i \in 1..Len(queue_draw_area) :
                RectFromI32(invalidated'[Len(queue_draw_area) + 1 - i])
                    = queue_draw_area[i]
          /\ (op.name = "flush" => invalidated' = <<>>)]_vars

C6_Witness == op.name = "flush" /\ Len(invalidated) >= 2

\* C7: cursor_goto(row, col) appends exactly two rectangles: the cursor
\* rectangle before the call, then one whose origin is the pixel origin of
\* cell (row, col), with cursor animation enabled or disabled.
C7_GotoQueuesOldAndNew ==
    [][op'.name = "cursor_goto" =>
          LET n == Len(queue_draw_area)
          IN  /\ Len(queue_draw_area') = n + 2
              /\ SubSeq(queue_draw_area', 1, n) = queue_draw_area
              /\ queue_draw_area'[n + 1] =
                    RectFromI32(GetCursorRect(rows, cell_metrics, cursor))
              /\ queue_draw_area'[n + 2].x
                    = Floor(op'.col * cell_metrics.width)
              /\ queue_draw_area'[n + 2].y
                    = Floor(op'.row * cell_metrics.height)]_vars

\* The cell the cursor is on, or is moving to, is a double-width cell of the
\* row store.
DoubleAtCursor ==
    LET at == IF cursor.animation # <<>> THEN <<cursor.animation[1].end>>
              ELSE cursor.pos
    IN  /\ at # <<>>
        /\ \E r \in 1..Len(rows) : \E c \in 1..Len(rows[r]) :
              /\ (r - 2) * PosDen < at[1][1] /\ at[1][1] <= (r - 1) * PosDen
              /\ (c - 2) * PosDen < at[1][2] /\ at[1][2] <= (c - 1) * PosDen
              /\ rows[r][c].double_width

\* The least whole number of pixels that is at least v pango units.
IsCeilOf(n, v) == n * PangoScale >= v /\ (n - 1) * PangoScale < v

\* C8: get_cursor_rect has width ceil(2 * cell_width) when the cell at the
\* cursor is double-width and ceil(cell_width) otherwise, and height
\* ceil(cell_height), in every cursor state.
C8_CursorRectSize ==
    LET r == GetCursorRect(rows, cell_metrics, cursor)
    IN  /\ IsCeilOf(r.width, IF DoubleAtCursor THEN 2 * cell_metrics.width
                             ELSE cell_metrics.width)
        /\ IsCeilOf(r.height, cell_metrics.height)
        /\ op.name = "cursor_goto" =>
              FlushRect(queue_draw_area[Len(queue_draw_area)]) = r

\* A double-width cell under a cursor that is in the middle of its move.
C8_Witness ==
    /\ DoubleAtCursor
    /\ cursor.animation # <<>>
    /\ cursor.pos # <<cursor.animation[1].end>>
    /\ cell_metrics.width % PangoScale # 0

\* C9: the rectangle put_segments paints and queues for a segment of
\* columns [c, c + n) of row r has origin (floor(c * w), floor(r * h)) and
\* extent (ceil(n * w), ceil(h)).
C9_SegmentRect ==
    PutLineOk =>
        /\ Len(queue_draw_area) >= Len(painted)
        /\ \A i \in 1..Len(painted) :
              LET e == QueuedFor(i)
                  cw == painted[i].start * cell_metrics.width
                  nw == painted[i].len * cell_metrics.width
                  rh == painted[i].row * cell_metrics.height
              IN  /\ e.x % PangoScale = 0 /\ e.y % PangoScale = 0
                  /\ e.x <= cw /\ cw < e.x + PangoScale
                  /\ e.y <= rh /\ rh < e.y + PangoScale
                  /\ IsCeilOf(ToI32(e.width), nw)
                  /\ IsCeilOf(ToI32(e.height), cell_metrics.height)
        /\ Len(painted) > 0 =>
              LET e == FlushRect(QueuedFor(Len(painted)))
              IN  \A x \in e.x..(e.x + e.width - 1) :
                  \A y \in e.y..(e.y + e.height - 1) :
                      (x < surfaces.front.w /\ y < surfaces.front.h) =>
                          /\ PixelAt(surfaces.front, x, y)[1] = "text"
                          /\ PixelAt(surfaces.front, x, y)[4] = x - e.x
                          /\ PixelAt(surfaces.front, x, y)[5] = y - e.y

\* A painted segment whose start and width are not whole pixels.
C9_Witness ==
    /\ PutLineOk
    /\ \E i \in 1..Len(painted) :
          /\ (painted[i].start * cell_metrics.width) % PangoScale # 0
          /\ (painted[i].len * cell_metrics.width) % PangoScale # 0

\* C10: the rectangle queued for a segment contains the segment's pixel
\* area [c * w, (c + n) * w) x [r * h, (r + 1) * h), and each of its edges
\* lies at most one pixel outside it.
C10_NeverUnderInvalidates ==
    PutLineOk =>
        \A i \in 1..Len(painted) :
            LET e == QueuedFor(i)
                left == painted[i].start * cell_metrics.width
                right == left + painted[i].len * cell_metrics.width
                top == painted[i].row * cell_metrics.height
                bottom == top + cell_metrics.height
            IN  /\ e.x <= left /\ left - e.x <= PangoScale
                /\ e.x + e.width >= right
                /\ e.x + e.width - right <= PangoScale
                /\ e.y <= top /\ top - e.y <= PangoScale
                /\ e.y + e.height >= bottom
                /\ e.y + e.height - bottom <= PangoScale

\* C11: while blink_on is not 0 the blink phase stays in [0, 2] and the
\* alpha tick paints the cursor surface with is the phase folded into
\* [0, 1]: the phase when it is at most 1, and 2 - phase otherwise.
C11_BlinkAlphaBounded ==
    /\ cursor.alpha >= 0 /\ cursor.alpha <= 2 * AlphaDen
    /\ (op.name = "tick" /\ cursor.blink_on # 0) =>
          /\ cursor_context.kind = "fill"
          /\ cursor_context.alpha >= 0 /\ cursor_context.alpha <= AlphaDen
          /\ cursor_context.alpha =
                IF cursor.alpha <= AlphaDen THEN cursor.alpha
                ELSE 2 * AlphaDen - cursor.alpha

\* A tick that painted a phase above 1.
C11_Witness ==
    /\ op.name = "tick" /\ cursor.blink_on # 0
    /\ cursor.alpha > AlphaDen
    /\ cursor_context.alpha = 2 * AlphaDen - cursor.alpha

\* The cursor surface holds no translucent fill.  (A surface that was never
\* painted is not counted as translucent here.)
CursorSurfaceOpaque ==
    cursor_context.kind = "fill" => cursor_context.alpha = AlphaDen

\* C12: whenever blink_on is 0 the cursor surface is fully opaque.
C12_SteadyCursorOpaque == cursor.blink_on = 0 => CursorSurfaceOpaque

\* C13: the paint callback draws the cursor, at the cursor rectangle, when
\* the grid is active and not busy, and draws no cursor when it is busy or
\* not active.
C13_CursorPaintedIffActiveIdle ==
    op.name = "draw" =>
        /\ IsSome(screen)
        /\ (busy \/ ~active) => Unwrap(screen).cursor = None
        /\ (~busy /\ active) =>
              LET r == GetCursorRect(rows, cell_metrics, cursor)
              IN  Unwrap(screen).cursor =
                    Some([x |-> FromI32(r.x), y |-> FromI32(r.y),
                          width |-> (FromI32(r.width)
                                        * cursor.cell_percentage) \div 100,
                          height |-> FromI32(r.height)])

\* A cursor painted while it blinks and moves.
C13_Witness ==
    /\ op.name = "draw" /\ ~busy /\ active
    /\ cursor.blink_on # 0 /\ cursor.animation # None
    /\ Unwrap(screen).cursor # None
    /\ Unwrap(Unwrap(screen).cursor).width > 0

\* The number of rows and the length of each row.
Dims(rs) == [i \in 1..Len(rs) |-> Len(rs[i])]

KeptWidth == cell_metrics'.width * (IF Len(rows) > 0 THEN RowLen(rows[1]) ELSE 0)

KeptHeight == cell_metrics'.height * Len(rows)

\* C15: after a successful resize every pixel of the new front surface
\* that lies outside the rectangle of prev_cols * new cell width by
\* prev_rows * new cell height is default background, and every pixel
\* inside it that the old front surface had is the old front's pixel.
C15_ResizeKeepsOldArea ==
    [][op'.name = "resize" /\ op'.result = "Ok" =>
        \A y \in 0..(surfaces'.front.h - 1), x \in 0..(surfaces'.front.w - 1) :
            /\ (x * PangoScale >= KeptWidth \/ y * PangoScale >= KeptHeight)
                  => PixelAt(surfaces'.front, x, y) = Bg
            /\ ( /\ (x + 1) * PangoScale <= KeptWidth
                 /\ (y + 1) * PangoScale <= KeptHeight
                 /\ x < surfaces.front.w /\ y < surfaces.front.h )
                  => PixelAt(surfaces'.front, x, y)
                       = PixelAt(surfaces.front, x, y)]_vars

\* A resize that grew the grid after a change from the widest font to the
\* narrowest: of the run "B" painted in the old metrics, the pixel inside
\* the kept area is still there and the pixel beyond it is background.
C15_Witness ==
    /\ op.name = "resize" /\ op.result = "Ok" /\ op.col = MaxCols
    /\ cell_metrics.font = "F1"
    /\ PixelAt(surfaces.front, 2, 0) = <<"text", 1, "B", 0, 0>>
    /\ PixelAt(surfaces.front, 3, 0) = Bg

\* Whether a surface has the pixel size of the current row store in the
\* current cell metrics, the lengths rounded down or up.
SizedForGrid(surface) ==
    LET w == RowLen(rows[1]) * cell_metrics.width
        h == Len(rows) * cell_metrics.height
    IN  /\ surface.w \in ToI32(Floor(w))..ToI32(Ceil(w))
        /\ surface.h \in ToI32(Floor(h))..ToI32(Ceil(h))

\* C16: in every state of a running session whose grid has been resized,
\* the front, back and prev surfaces have the pixel size rows * cell_height
\* by cols * cell_width of the current row store and cell metrics.
C16_SurfacesSizedForGrid ==
    (running /\ Len(rows) > 0) =>
        /\ SizedForGrid(surfaces.front)
        /\ SizedForGrid(surfaces.back)
        /\ SizedForGrid(surfaces.prev)

\* The region and row count of the scroll that was the last step.
LastScroll == scrolled'[Len(scrolled')]

\* C17: a scroll of a region by `count` rows, up (count > 0) and down
\* (count < 0), leaves in columns [left, right) of each region row whose
\* source row (the row `count` below it) is in the region the cells that
\* source row had, and default cells in the other region rows; cells
\* outside the columns and rows outside the region are unchanged.
C17_ScrollMovesRows ==
    [][op'.name = "scroll" /\ op'.result = "Ok" =>
        LET reg == LastScroll.reg
            count == LastScroll.count
        IN  /\ Len(rows') = Len(rows)
            /\ \A r \in 0..(Len(rows) - 1) :
                  /\ RowLen(rows'[r + 1]) = RowLen(rows[r + 1])
                  /\ \A c \in 0..(RowLen(rows[r + 1]) - 1) :
                        rows'[r + 1][c + 1] =
                          IF r < reg.top \/ r >= reg.bot
                             \/ c < reg.left \/ c >= reg.right
                          THEN rows[r + 1][c + 1]
                          ELSE IF r + count >= reg.top /\ r + count < reg.bot
                          THEN rows[r + count + 1][c + 1]
                          ELSE DefaultCell]_vars

\* A scroll up by one row has moved the columns of two rows of different
\* content, the second and the third, and cleared those of the last row;
\* the first column of each row is as it was.
C17_Witness ==
    /\ op.name = "scroll" /\ op.result = "Ok"
    /\ scrolled # <<>>
    /\ scrolled[Len(scrolled)].count = 1
    /\ LET before == scrolled[Len(scrolled)].rows
       IN  /\ before[1][1].text = "A"
           /\ before[2][1].text = "W"
           /\ before[2][2] # before[3][2]
           /\ before[3][2] # DefaultCell
           /\ rows[1][1].text = "A" /\ rows[1][2] = before[2][2]
           /\ rows[2][1].text = "W" /\ rows[2][2] = before[3][2]
           /\ rows[3][2] = DefaultCell

\* The last two steps were scrolls of one region, the second by the
\* opposite of the row count of the first.
ScrolledBack ==
    /\ op'.name = "scroll" /\ op'.result = "Ok"
    /\ Len(scrolled') = 2
    /\ scrolled'[1].reg = scrolled'[2].reg
    /\ scrolled'[1].count = -scrolled'[2].count

\* Whether row r is in the clear range of a scroll of `reg` by `count`.
ClearedBy(reg, count, r) ==
    IF count > 0 THEN r >= reg.bot - count /\ r < reg.bot
    ELSE r >= reg.top /\ r < reg.top - count

\* Whether the cell at (r, c) is in the columns and rows of the region.
InRegion(reg, r, c) ==
    r >= reg.top /\ r < reg.bot /\ c >= reg.left /\ c < reg.right

\* C18: a scroll of a region by delta rows followed by one by -delta leaves
\* every cell outside the columns [left, right) as it was, and in those
\* columns every region row holds its original cells again, the rows the
\* first shift cleared included, except the rows the second shift cleared,
\* which hold default cells.
C18_ScrollBackRestores ==
    [][ScrolledBack =>
        LET reg == scrolled'[1].reg
            orig == scrolled'[1].rows
        IN  \A r \in 0..(Len(orig) - 1) :
            \A c \in 0..(RowLen(orig[r + 1]) - 1) :
              rows'[r + 1][c + 1] =
                IF InRegion(reg, r, c)
                   /\ ClearedBy(reg, scrolled'[2].count, r)
                THEN DefaultCell
                ELSE orig[r + 1][c + 1]]_vars

\* C18 as stated, without the second shift filling rows again:
\* cells outside the columns are as they were, region rows that neither
\* shift cleared hold their original cells, and every row that either
\* shift cleared holds default cells.
C18_ClearedRowsStayDefault ==
    [][ScrolledBack =>
        LET reg == scrolled'[1].reg
            orig == scrolled'[1].rows
        IN  \A r \in 0..(Len(orig) - 1) :
            \A c \in 0..(RowLen(orig[r + 1]) - 1) :
              rows'[r + 1][c + 1] =
                IF InRegion(reg, r, c)
                   /\ ( \/ ClearedBy(reg, scrolled'[1].count, r)
                        \/ ClearedBy(reg, scrolled'[2].count, r) )
                THEN DefaultCell
                ELSE orig[r + 1][c + 1]]_vars

\* A scroll down by one row and back up: the first row, which the first
\* shift cleared, holds its text again, and the last row, which the
\* second shift cleared, has lost its own.
C18_Witness ==
    /\ op.name = "scroll" /\ op.result = "Ok"
    /\ Len(scrolled) = 2
    /\ scrolled[1].reg = scrolled[2].reg
    /\ scrolled[1].count = -1 /\ scrolled[2].count = 1
    /\ LET orig == scrolled[1].rows
       IN  /\ orig[1][2] # DefaultCell
           /\ rows[1][2] = orig[1][2]
           /\ orig[ScrollRows][2] # DefaultCell
           /\ rows[ScrollRows][2] = DefaultCell

\* The first and the row after the last of the rows a scroll of `reg` by
\* `count` rows moves content into.
DstTop(reg, count) == IF count > 0 THEN reg.top ELSE reg.top - count

DstBot(reg, count) == IF count > 0 THEN reg.bot - count ELSE reg.bot

\* C19: a scroll appends exactly one rectangle to the queue, the pixel
\* band of the destination rows [dst_top, dst_bot) over the columns
\* [left, right), and, with a positive scroll speed, starts an animation
\* over the pixel delta (dst_top - src_top) * cell_height that begins at
\* the current frame time and lasts scroll_speed.
C19_ScrollQueuesBandAndAnimates ==
    [][op'.name = "scroll" /\ op'.result = "Ok" =>
        LET reg == LastScroll.reg
            count == LastScroll.count
            band == [x |-> reg.left * cell_metrics.width,
                     y |-> DstTop(reg, count) * cell_metrics.height,
                     width |-> (reg.right - reg.left) * cell_metrics.width,
                     height |-> (DstBot(reg, count) - DstTop(reg, count))
                                  * cell_metrics.height]
            anim == surfaces'.offset_y_anim
        IN  /\ queue_draw_area' = Append(queue_draw_area, band)
            /\ scroll_speed > 0 =>
                  /\ IsSome(anim)
                  /\ Unwrap(anim).end - Unwrap(anim).start
                       = (0 - count) * cell_metrics.height
                  /\ Unwrap(anim).start_time = frame_time
                  /\ Unwrap(anim).end_time - Unwrap(anim).start_time
                       = scroll_speed]_vars

\* A scroll down by one row, at a frame time after the first and behind an
\* entry already queued, has queued the band of the last two rows and
\* started the animation.
C19_Witness ==
    /\ op.name = "scroll" /\ op.result = "Ok"
    /\ scrolled # <<>> /\ scrolled[Len(scrolled)].count = -1
    /\ scroll_speed > 0
    /\ frame_time > 0
    /\ Len(queue_draw_area) = 2
    /\ queue_draw_area[2].y = cell_metrics.height
    /\ queue_draw_area[2].height = (ScrollRows - 1) * cell_metrics.height
    /\ IsSome(surfaces.offset_y_anim)
    /\ Unwrap(surfaces.offset_y_anim).start_time = frame_time

\* The offset a scroll by `count` rows comes to rest at.
RestingOffset(count) == ScrollTarget((0 - count) * cell_metrics.height)

\* C20: with a scroll speed of 0 or less, a scroll leaves the surface set
\* without animation and the vertical offset at its resting value, and a
\* tick after it asks for no full redraw and leaves the offset alone.
C20_NoAnimationWithoutSpeed ==
    [][scroll_speed <= 0 =>
        /\ (op'.name = "scroll" /\ op'.result = "Ok") =>
              /\ surfaces'.offset_y_anim = None
              /\ surfaces'.offset_y = RestingOffset(LastScroll.count)
        /\ op'.name = "tick" =>
              /\ \A i \in 1..Len(invalidated') : invalidated'[i] # FullRedraw
              /\ surfaces'.offset_y_anim = None
              /\ surfaces'.offset_y = surfaces.offset_y]_vars

\* A tick after a scroll at scroll speed 0 or less, the band of the scroll
\* still in the queue.
C20_Witness ==
    /\ op.name = "tick" /\ op.result = "Ok"
    /\ scroll_speed <= 0
    /\ frame_time > 0
    /\ surfaces.offset_y_anim = None
    /\ \E i \in 1..Len(queue_draw_area) :
          /\ queue_draw_area[i].x = Region.left * cell_metrics.width
          /\ queue_draw_area[i].height
               = (ScrollRows - 1) * cell_metrics.height

\* The scroll animation is active.
Animating == IsSome(surfaces.offset_y_anim)

\* A tick while a scroll animation is active: at or after the end time the
\* offset is the target and the animation is cleared; before it the
\* animation goes on and the offset has not moved away from the target nor
\* past it.  A tick without animation asks for no full redraw.
TickAdvancesScroll ==
    op'.name = "tick" =>
        IF Animating
        THEN LET a == Unwrap(surfaces.offset_y_anim)
                 off == surfaces.offset_y
                 off2 == surfaces'.offset_y
             IN  IF frame_time' >= a.end_time
                 THEN /\ off2 = a.end
                      /\ surfaces'.offset_y_anim = None
                 ELSE /\ surfaces'.offset_y_anim = surfaces.offset_y_anim
                      /\ IF a.end >= a.start
                         THEN off <= off2 /\ off2 <= a.end
                         ELSE off >= off2 /\ off2 >= a.end
        ELSE /\ surfaces'.offset_y = surfaces.offset_y
             /\ surfaces'.offset_y_anim = None
             /\ \A i \in 1..Len(invalidated') : invalidated'[i] # FullRedraw

\* C21: over the ticks of a scroll animation the vertical offset moves
\* monotonically toward the target, the first tick at or after start time
\* plus duration sets it to the target exactly and clears the animation,
\* and with a frame clock that keeps advancing every animation ends; ticks
\* without animation ask for no redraw.
C21_ScrollAnimationEnds ==
    /\ [][TickAdvancesScroll]_vars
    /\ (Animating ~> ~Animating)

\* A tick that ended a scroll animation: the offset is at the target of
\* the scroll, which is not 0.
C21_Witness ==
    /\ op.name = "tick" /\ op.result = "Ok"
    /\ ~Animating
    /\ surfaces.offset_y # 0
    /\ scroll_speed > 1
    /\ \E i \in 1..Len(invalidated) : invalidated[i] = FullRedraw

C23_DoubleWidthPaired ==
    \A r \in 1..Len(rows) : \A c \in 1..Len(rows[r]) :
        rows[r][c].double_width =>
            /\ c < Len(rows[r])
            /\ rows[r][c + 1].text = ""
            /\ ~rows[r][c + 1].double_width

\* The text of the cells of the 0-based columns [lo, hi) of a row.
RECURSIVE TextOf(_, _, _)
TextOf(row, lo, hi) ==
    IF lo >= hi THEN "" ELSE row[lo + 1].text \o TextOf(row, lo + 1, hi)

\* The segments of a full row are in column order, contiguous from column
\* 0 to the end of the row, never empty, of one highlight each that differs
\* from the next segment's, and hold the text of their cells.
FullRowSegmentsExact(row) ==
    LET segs == AsSegments(row, 0, RowLen(row))
    IN  /\ (RowLen(row) > 0) =>
              /\ segs # <<>>
              /\ segs[1].start = 0
              /\ segs[Len(segs)].start + segs[Len(segs)].len = RowLen(row)
        /\ \A k \in 1..Len(segs) :
              /\ segs[k].len >= 1
              /\ k < Len(segs) =>
                    /\ segs[k + 1].start = segs[k].start + segs[k].len
                    /\ segs[k + 1].hl_id # segs[k].hl_id
              /\ \A c \in segs[k].start..(segs[k].start + segs[k].len - 1) :
                    row[c + 1].hl_id = segs[k].hl_id
              /\ segs[k].text
                   = TextOf(row, segs[k].start, segs[k].start + segs[k].len)

\* The entries of the paint log for one row, in paint order.
PaintedOf(r) == SelectSeq(painted, LAMBDA e : e.row = r)

\* C24: for every row of the store, as_segments over the full row gives
\* contiguous maximal segments in column order that cover every column
\* once and reconstruct the row's text and highlight ids; a redraw paints
\* exactly these segments, row after row.
C24_SegmentsRoundTrip ==
    /\ \A r \in 1..Len(rows) : FullRowSegmentsExact(rows[r])
    /\ (op.name = "redraw" /\ op.result = "Ok") =>
          /\ \A i \in 1..Len(painted) :
                /\ painted[i].row \in 0..(Len(rows) - 1)
                /\ i < Len(painted) => painted[i].row <= painted[i + 1].row
          /\ \A r \in 1..Len(rows) :
                LET segs == AsSegments(rows[r], 0, RowLen(rows[r]))
                IN  PaintedOf(r - 1) =
                      [k \in 1..Len(segs) |->
                          [row |-> r - 1, start |-> segs[k].start,
                           len |-> segs[k].len]]

\* A redraw of a grid whose row holds two cells of different highlights
\* has painted the two segments "A" and "B", in column order.
C24_Witness ==
    /\ op.name = "redraw" /\ op.result = "Ok"
    /\ Len(rows) = 1
    /\ AsSegments(rows[1], 0, RowLen(rows[1])) =
          <<[start |-> 0, len |-> 1, hl_id |-> 0, text |-> "A"],
            [start |-> 1, len |-> 1, hl_id |-> 1, text |-> "B"]>>
    /\ painted = <<[row |-> 0, start |-> 0, len |-> 1],
                   [row |-> 0, start |-> 1, len |-> 1]>>

\* The number of columns a line's cells fill, repeat counts included.
RECURSIVE ColumnsOf(_)
ColumnsOf(cells) ==
    IF cells = <<>> THEN 0 ELSE Head(cells).repeat + ColumnsOf(Tail(cells))

\* The cell a line's cells put in the k-th column they fill (k from 1).
RECURSIVE CellSent(_, _)
CellSent(cells, k) ==
    IF k <= Head(cells).repeat
    THEN Cell(Head(cells).text, Head(cells).hl_id, Head(cells).double_width)
    ELSE CellSent(Tail(cells), k - Head(cells).repeat)

\* The row store after the step is the one before it with the cells
\* written into the row and from the start column of the last put_line,
\* left to right, and every other cell as it was.
WrittenLeftToRight(cells) ==
    LET n == ColumnsOf(cells) IN
    /\ Len(rows') = Len(rows)
    /\ \A r \in 1..Len(rows) :
          /\ Len(rows'[r]) = Len(rows[r])
          /\ \A c \in 1..Len(rows[r]) :
                rows'[r][c] =
                  IF r = op'.row + 1 /\ c > op'.col /\ c <= op'.col + n
                  THEN CellSent(cells, c - op'.col)
                  ELSE rows[r][c]

\* The 10-column row of "A" at highlight 0 with "B" at highlight 1,
\* repeated twice, written from column 2 on, as segments.
ScenarioSegments ==
    LET row0 == [i \in 1..10 |-> Cell("A", 0, FALSE)]
        line == [row |-> 0, col_start |-> 2,
                 cells |-> <<CellIn("B", 1, 2, FALSE)>>]
    IN  AsSegments(RowWrite(row0, line), 0, 10)

\* C25: a line update writes its cells, repeat counts expanded, left to
\* right from its start column and changes no other cell of the store;
\* in the 10-column scenario the row reads "AA", "BB", "AAAAAA".
C25_LineUpdateWrites ==
    [][(op'.name = "put_line" /\ op'.result = "Ok") =>
        /\ \E cells \in {CellsAB, CellsRepeat} : WrittenLeftToRight(cells)
        /\ ScenarioSegments =
              <<[start |-> 0, len |-> 2, hl_id |-> 0, text |-> "AA"],
                [start |-> 2, len |-> 2, hl_id |-> 1, text |-> "BB"],
                [start |-> 4, len |-> 6, hl_id |-> 0, text |-> "AAAAAA"]>>]_vars

\* A line update of one repeated cell from column 1 on, over a row that
\* held "A", "B": the row reads "A", "B", "B", the first cell untouched.
C25_Witness ==
    /\ op.name = "put_line" /\ op.result = "Ok" /\ op.col = 1
    /\ Len(rows) > op.row
    /\ LET row == rows[op.row + 1]
       IN  /\ row[1] = Cell("A", 0, FALSE)
           /\ row[2] = Cell("B", 1, FALSE)
           /\ row[3] = Cell("B", 1, FALSE)
    /\ painted = <<[row |-> op.row, start |-> 1, len |-> 2]>>

\* The rectangle of the whole front surface, which SpecRows takes as the
\* visible area of the drawing area.
VisibleArea ==
    [x |-> 0, y |-> 0, width |-> FromI32(surfaces.front.w),
     height |-> FromI32(surfaces.front.h)]

\* C26: after clear() every cell of every row is the default cell, the
\* number of rows and their lengths are as before, every pixel of the
\* visible area of the front surface is the default background, and
\* exactly one rectangle, the whole visible area, was added to the queue.
C26_ClearResetsGrid ==
    [][op'.name = "clear" =>
        /\ op'.result = "Ok"
        /\ Len(rows') = Len(rows)
        /\ \A r \in 1..Len(rows) :
              /\ Len(rows'[r]) = Len(rows[r])
              /\ \A c \in 1..Len(rows[r]) : rows'[r][c] = DefaultCell
        /\ surfaces'.front.w = surfaces.front.w
        /\ surfaces'.front.h = surfaces.front.h
        /\ \A y \in 0..(surfaces.front.h - 1) :
              \A x \in 0..(surfaces.front.w - 1) :
                 PixelAt(surfaces'.front, x, y) = Bg
        /\ queue_draw_area' = Append(queue_draw_area, VisibleArea)]_vars

\* A clear of the largest grid that had a line painted and queued: the
\* rows are default again and the queue holds the line's rectangle and
\* then the whole area.
C26_Witness ==
    /\ op.name = "clear"
    /\ Len(rows) = MaxRows /\ Len(rows[1]) = MaxCols
    /\ \A c \in 1..MaxCols : rows[1][c] = DefaultCell
    /\ Len(queue_draw_area) = 2
    /\ queue_draw_area[1] # VisibleArea
    /\ queue_draw_area[2] = VisibleArea
    /\ PixelAt(surfaces.front, 0, 0) = Bg

\* The handlers that add rectangles to the queue.
QueueWriters == {"put_line", "redraw", "clear", "scroll", "cursor_goto"}

\* The handlers that leave the queue as it is.
QueueKeepers ==
    {"tick", "resize", "update_metrics", "set_mode", "set_active",
     "set_busy"}

\* C27: put_line, redraw, clear, scroll and cursor_goto only append to
\* the dirty-rectangle queue, flush empties it and hands every rectangle
\* that was queued to the drawing area, and tick, resize, update_metrics,
\* set_mode, set_active and set_busy leave it as it is; so whatever is
\* queued stays queued until the next flush.
C27_QueueFrame ==
    [][/\ op'.name \in QueueWriters \cup QueueKeepers \cup {"flush"}
       /\ op'.name \in QueueKeepers => queue_draw_area' = queue_draw_area
       /\ op'.name \in QueueWriters =>
             /\ Len(queue_draw_area') >= Len(queue_draw_area)
             /\ SubSeq(queue_draw_area', 1, Len(queue_draw_area))
                  = queue_draw_area
       /\ op'.name = "flush" =>
             /\ queue_draw_area' = <<>>
             /\ Len(invalidated') = Len(queue_draw_area)
             /\ \A i \in 1..Len(queue_draw_area) :
                   invalidated'[Len(queue_draw_area) + 1 - i]
                     = FlushRect(queue_draw_area[i])]_vars

\* A resize with a rectangle in the queue, which it left there.
C27_Witness ==
    /\ op.name = "resize" /\ op.result = "Ok"
    /\ Len(rows) = MaxRows
    /\ Len(queue_draw_area) = MaxQueue
    /\ cursor.blink_on = 1
    /\ busy /\ ~active

\* C28: a successful resize hands the scroll offset and the animation in
\* flight (start, target, start and end time) to the new surface set as
\* they were, so the animation is active after the resize exactly when it
\* was before and a tick ends it at the same frame time.
C28_ResizeKeepsAnimation ==
    [][(op'.name = "resize" /\ op'.result = "Ok") =>
        /\ surfaces'.offset_y = surfaces.offset_y
        /\ surfaces'.offset_y_anim = surfaces.offset_y_anim
        /\ \A ft \in frame_time..(MaxTime + 2) :
              /\ IsSome(SurfacesTick(surfaces', ft).surfaces.offset_y_anim)
                   = IsSome(SurfacesTick(surfaces, ft).surfaces.offset_y_anim)
              /\ SurfacesTick(surfaces', ft).surfaces.offset_y
                   = SurfacesTick(surfaces, ft).surfaces.offset_y]_vars

\* A resize to a taller grid half way through a scroll animation: the
\* new, taller surface set is at the offset the animation had reached.
C28_Witness ==
    /\ op.name = "resize" /\ op.result = "Ok"
    /\ Len(rows) = ScrollRows + 1
    /\ surfaces.front.h = ToI32(Ceil((ScrollRows + 1) * cell_metrics.height))
    /\ IsSome(surfaces.offset_y_anim)
    /\ surfaces.offset_y # 0
    /\ surfaces.offset_y # Unwrap(surfaces.offset_y_anim).end
    /\ frame_time < Unwrap(surfaces.offset_y_anim).end_time

\* The cell (row, col) as a displayed position.
AtCell(row, col) == Some(<<row * PosDen, col * PosDen>>)

\* How far the displayed position p is from the position t.
Distance(p, t) ==
    (IF p[1] > t[1] THEN p[1] - t[1] ELSE t[1] - p[1])
    + (IF p[2] > t[2] THEN p[2] - t[2] ELSE t[2] - p[2])

\* The steps of the cursor's displayed position: a cursor_goto with the
\* animation disabled puts it on the cell at once; a tick during a move
\* brings it no further from the target, and onto it once the move's
\* duration has passed; nothing but a tick or a cursor_goto changes it or
\* the move in flight, and while no move is in flight nothing but a
\* cursor_goto does.
CursorMoves ==
    /\ (op'.name = "cursor_goto" /\ cursor.disable_animation) =>
          /\ cursor'.pos = AtCell(op'.row, op'.col)
          /\ ~IsSome(cursor'.animation)
    /\ (op'.name = "cursor_goto" /\ ~cursor.disable_animation
          /\ IsSome(cursor.pos)) =>
          /\ cursor'.pos = cursor.pos
          /\ IsSome(cursor'.animation)
          /\ Some(Unwrap(cursor'.animation).end) = AtCell(op'.row, op'.col)
          /\ Unwrap(cursor'.animation).end_time
               = frame_time + CursorDuration
    /\ (op'.name = "tick" /\ IsSome(cursor.animation)) =>
          LET a == Unwrap(cursor.animation)
          IN  /\ Distance(Unwrap(cursor'.pos), a.end)
                   <= Distance(Unwrap(cursor.pos), a.end)
              /\ frame_time' >= a.end_time =>
                    /\ cursor'.pos = Some(a.end)
                    /\ ~IsSome(cursor'.animation)
              /\ frame_time' < a.end_time =>
                    cursor'.animation = cursor.animation
    /\ (op'.name # "cursor_goto" /\ ~IsSome(cursor.animation)) =>
          /\ cursor'.pos = cursor.pos
          /\ ~IsSome(cursor'.animation)
    /\ op'.name \notin {"cursor_goto", "tick"} =>
          /\ cursor'.pos = cursor.pos
          /\ cursor'.animation = cursor.animation

\* The cursor is on its way to the cell target.
MovingTo(target) ==
    /\ IsSome(cursor.animation)
    /\ Some(Unwrap(cursor.animation).end) = AtCell(target[1], target[2])

\* C29: with the animation disabled the displayed position is (row, col)
\* right after cursor_goto(row, col); with it enabled the displayed
\* position moves toward the cell over the following ticks, is (row, col)
\* once the frame clock has passed the fixed duration, and stays there
\* until the next cursor_goto; every move ends, by such a tick or by the
\* next cursor_goto.
C29_CursorReachesTarget ==
    /\ [][CursorMoves]_vars
    /\ \A target \in MoveTargets : MovingTo(target) ~> ~MovingTo(target)

\* Half way through an animated move from the first to the last cell.
C29_Witness ==
    /\ op.name = "tick"
    /\ MovingTo(<<MaxRows - 1, MaxCols - 1>>)
    /\ cursor.pos # AtCell(0, 0)
    /\ cursor.pos # AtCell(MaxRows - 1, MaxCols - 1)
    /\ Unwrap(cursor.animation).start = Unwrap(AtCell(0, 0))

\* C30: the paint callback, while a scroll animation is active, composites
\* the back surface at the offset (offset_y - animation start) and then
\* the front surface at offset_y; while none is active it composites the
\* front surface alone, at the resting offset_y, and not the back surface.
C30_CompositionRule ==
    [][op'.name = "draw" =>
        /\ op'.result = "Ok"
        /\ IsSome(screen')
        /\ Unwrap(screen').front = surfaces.offset_y
        /\ IsSome(surfaces.offset_y_anim) =>
              LET back_offset ==
                    surfaces.offset_y - Unwrap(surfaces.offset_y_anim).start
              IN  /\ Unwrap(screen').back = Some(back_offset)
                  /\ surfaces'.prev =
                        PaintOver(PaintOver(surfaces.prev, surfaces.back,
                                            back_offset),
                                  surfaces.front, surfaces.offset_y)
        /\ ~IsSome(surfaces.offset_y_anim) =>
              /\ Unwrap(screen').back = None
              /\ surfaces'.prev =
                    PaintOver(surfaces.prev, surfaces.front,
                              surfaces.offset_y)
        /\ surfaces'.front = surfaces.front
        /\ surfaces'.back = surfaces.back
        /\ surfaces'.offset_y = surfaces.offset_y
        /\ surfaces'.offset_y_anim = surfaces.offset_y_anim]_vars

\* A frame painted half way through a scroll animation whose back
\* surface holds the text that was on the screen before the scroll.
C30_Witness ==
    /\ op.name = "draw"
    /\ IsSome(screen)
    /\ IsSome(surfaces.offset_y_anim)
    /\ Unwrap(screen).front # 0
    /\ Unwrap(screen).front # Unwrap(surfaces.offset_y_anim).end
    /\ IsSome(Unwrap(screen).back)
    /\ \E y \in 0..(surfaces.back.h - 1), x \in 0..(surfaces.back.w - 1) :
          PixelAt(surfaces.back, x, y)[1] = "text"

\* The timeout with the id `id` is pending in the main loop.
Pending(id) == \E t \in timeouts : t.id = id

\* The steps of the resize debounce (a handler runs at one time of the
\* main loop's clock): a resize event removes the timeout
\* that was pending and adds its own, due one delay later, and asks nvim
\* for nothing; a timeout that fires was due, was the one tracked, asks
\* nvim once, for the cols and rows of the last resize event, and leaves
\* nothing tracked.
DebounceSteps ==
    /\ (now' = now /\ op'.name = "da_resize") =>
          /\ timeouts' = {[id |-> next_source, due |-> now + ResizeDelay,
                           rows |-> op'.row, cols |-> op'.col]}
          /\ source_id' = Some(next_source)
          /\ nvim' = nvim
    /\ (now' = now /\ op'.name = "resize_timeout") =>
          /\ op.name = "da_resize"
          /\ \E t \in timeouts :
                /\ timeouts = {t}
                /\ t.id = Unwrap(source_id)
                /\ t.due <= now
                /\ t.rows = op.row /\ t.cols = op.col
          /\ nvim' = Append(nvim, <<op.col, op.row>>)
          /\ timeouts' = {}
          /\ source_id' = None
    /\ nvim' # nvim => (now' = now /\ op'.name = "resize_timeout")

C32_DeltasBelowOne ==
    /\ scroll_delta[1] > -DeltaDen /\ scroll_delta[1] < DeltaDen
    /\ scroll_delta[2] > -DeltaDen /\ scroll_delta[2] < DeltaDen

\* C33: calc_size returns the largest cols and rows that fit the drawing
\* area with the current cell metrics (cols * cell_width <= allocated
\* width < (cols + 1) * cell_width, and the same for rows and height),
\* which is the size the resize handler reports for that allocation.
C33_CalcSizeFits ==
    op.name = "calc_size" =>
        /\ op.result = "Ok"
        /\ op.col * cell_metrics.width <= FromI32(da.w)
        /\ (op.col + 1) * cell_metrics.width > FromI32(da.w)
        /\ op.row * cell_metrics.height <= FromI32(da.h)
        /\ (op.row + 1) * cell_metrics.height > FromI32(da.h)
        /\ op.col = DaResizeSize(cell_metrics, da.w, da.h).cols
        /\ op.row = DaResizeSize(cell_metrics, da.w, da.h).rows

\* C34: every tick asks the host to repaint the rectangle where the
\* cursor is displayed after that tick advanced it (or the whole drawing
\* area), whether the cursor blinks or not.
C34_TickInvalidatesCursor ==
    op.name = "tick" =>
        \E i \in 1..Len(invalidated) :
            \/ invalidated[i] = GetCursorRect(rows, cell_metrics, cursor)
            \/ invalidated[i] = FullRedraw

\* A run of n spaces.
RECURSIVE Spaces(_)
Spaces(n) == IF n = 0 THEN "" ELSE " " \o Spaces(n - 1)

\* The pixel shows nothing but the default background: it was filled
\* with it, or painted with a run of spaces in the default highlight.
ShowsBackground(pixel) ==
    \/ pixel = Bg
    \/ /\ pixel[1] = "text" /\ pixel[2] = 0
       /\ \E n \in 1..(MaxCols + 1) : pixel[3] = Spaces(n)

\* The pixels of the front surface that lie wholly inside cell (r, c)
\* (r and c from 0) show that cell of the row store: the default
\* background for a default cell, else text in the cell's highlight.
CellShown(r, c) ==
    LET cell == rows[r + 1][c + 1]
    IN  \A y \in 0..(surfaces.front.h - 1), x \in 0..(surfaces.front.w - 1) :
            ( /\ FromI32(x) >= c * cell_metrics.width
              /\ FromI32(x + 1) <= (c + 1) * cell_metrics.width
              /\ FromI32(y) >= r * cell_metrics.height
              /\ FromI32(y + 1) <= (r + 1) * cell_metrics.height ) =>
                IF cell = DefaultCell
                THEN ShowsBackground(PixelAt(surfaces.front, x, y))
                ELSE /\ PixelAt(surfaces.front, x, y)[1] = "text"
                     /\ PixelAt(surfaces.front, x, y)[2] = cell.hl_id

\* C35: after any sequence of put_line and scroll the front surface
\* agrees cell by cell with the row store, the cells a scroll cleared
\* included, which show the default background.
C35_FrontAgreesWithRows ==
    running =>
        \A r \in 0..(Len(rows) - 1) :
            \A c \in 0..(Len(rows[r + 1]) - 1) : CellShown(r, c)

\* C36: before any resize event the row store has the rows and cols the
\* surface set was allocated with, so get_grid_metrics succeeds and
\* reports them (pixel width = cols * cell_width, pixel height = rows *
\* cell_height) and a put_line on a row below that row count succeeds.
C36_ConstructedGridHasRows ==
    /\ Len(rows) = InitRows
    /\ \A r \in 1..Len(rows) : RowLen(rows[r]) = InitCols
    /\ LET m == GridGetGridMetrics(rows, cell_metrics)
       IN  /\ m.result = "Ok"
           /\ m.rows = InitRows /\ m.cols = InitCols
           /\ m.width = InitCols * cell_metrics.width
           /\ m.height = InitRows * cell_metrics.height
    /\ op.name = "get_grid_metrics" =>
          (op.result = "Ok" /\ op.row = InitRows /\ op.col = InitCols)
    /\ (op.name = "put_line" /\ op.row < InitRows) => op.result = "Ok"

====
